---- MODULE Spec2Model ----
(***************************************************************************)
(* Model of the bloom-desktop hardware interface (python/).                *)
(*                                                                         *)
(*  - the camera streaming worker and the start_stream / stop_stream       *)
(*    commands of python/ipc_handler.py (specification SpecStream, and     *)
(*    SpecStreamFair where every started thread keeps being scheduled);    *)
(*  - the scan orchestrator Scanner of python/hardware/scanner.py, driving *)
(*    the DAQ of python/hardware/daq.py or daq_mock.py and the camera of   *)
(*    python/hardware/camera.py or camera_mock.py (specification SpecScan);*)
(*  - one execution of DAQ._write_and_execute, call by call, with its      *)
(*    retry loop (specification SpecExec);                                 *)
(*  - a DAQ or MockDAQ used on its own: initialize, rotate, home, cleanup  *)
(*    (specification SpecMotion);                                          *)
(*  - DAQ._generate_step_pulses as a function of its arguments and the     *)
(*    sampling rate (specification SpecPulses);                            *)
(*  - the daq, scanner and camera connect / disconnect commands of         *)
(*    python/ipc_handler.py, one command line at a time, with the lines    *)
(*    each prints (specification SpecCommands);                            *)
(*  - ScannerSettings.__post_init__ of python/hardware/scanner_types.py    *)
(*    as a function of its arguments (specification SpecConstruct).        *)
(*                                                                         *)
(* Angles are exact rationals kept as integers in units of 1/num_frames of *)
(* a degree, so that 360/num_frames degrees is the integer 360 and the     *)
(* 0.1 degree home threshold is the comparison 10*|d| > num_frames.        *)
(* Float rounding is modelled in one place only, RotatedByTiny, for a       *)
(* rotation too small to be represented next to 360.0.                     *)
(***************************************************************************)
EXTENDS Integers, Sequences, FiniteSets, TLC

\* Number of streaming threads that may be launched in one behaviour.
MaxThreads == 3
\* Number of FRAME: lines counted before the count saturates.
MaxFrameLines == 3
\* Largest num_frames of the scanner settings.
MaxFrames == 3

VARIABLES
    \* ---- python/ipc_handler.py, module-level streaming state ----
    streaming_active,   \* _streaming_active (threading.Event): BOOLEAN
    streaming_thread,   \* _streaming_thread: 0 for None, else a thread id
    streaming_lock,     \* _streaming_lock is held by the command thread
    camera_instance,    \* _camera_instance: "None", "closed" or "open"
    workers,            \* thread id -> position of that streaming_worker
    ipc_pc,             \* position of the command thread
    last_resp,          \* the last DATA:/ERROR: line of a camera command
    frame_lines,        \* number of FRAME: lines printed (saturating)
    error_lines,        \* number of ERROR: lines printed by workers (saturating)
    stop_returned,      \* a stop_stream that cleared the signal has returned
                        \* and no stream was started since
    \* ---- python/hardware/scanner.py, one Scanner instance ----
    num_frames,         \* settings.num_frames
    use_mock,           \* self._use_mock
    is_initialized,     \* self.is_initialized
    camera,             \* self.camera: "None" or "obj"
    daq,                \* self.daq: "None" or "obj"
    cam_is_open,        \* is_open of the scanner's camera object
    daq_is_initialized, \* is_initialized of the scanner's DAQ object
    current_position,   \* current_position of the DAQ object (units, see above)
    scan_pc,            \* position inside perform_scan, "idle" outside it
    frame_idx,          \* loop variable of perform_scan
    frames_captured,    \* local of perform_scan
    on_frame,           \* whether a callback was passed to perform_scan
    exc,                \* the call whose exception reached the except clause
    calls,              \* hardware and callback calls of the current scan
    scan_result,        \* what the last perform_scan returned or raised
    ever_initialized,   \* initialize() succeeded on this scanner at least once
    life_calls,         \* camera/DAQ calls of the last initialize() or cleanup()
    life_result,        \* how the last initialize() or cleanup() ended
    \* ---- python/hardware/daq.py, one DAQ instance ----
    task,               \* self.task: "None" or "open"
    exec_pc,            \* position inside _write_and_execute, "idle" outside it
    retry_count,        \* local of _write_and_execute
    done,               \* local of _write_and_execute
    exec_exc,           \* the exception that reached the except clause
    wait_attempts,      \* wait_until_done calls of the current execution
    last_wait,          \* outcome of the last wait_until_done call
    exec_calls,         \* the other task calls of the current execution
    exec_result,        \* what the last _write_and_execute returned or raised
    motion_calls,       \* the rotate() and home() calls since initialize()
    sampling_rate,      \* settings.sampling_rate
    pulse_steps,        \* num_steps passed to _generate_step_pulses
    pulse_direction,    \* direction passed to _generate_step_pulses
    pulse_data,         \* <<>> or <<the array _generate_step_pulses returned>>
    \* ---- python/ipc_handler.py, the command handlers ----
    daq_instance,       \* _daq_instance: whether it exists, its flag, position
                        \* and settings, and the settings its session began with
    scanner_instance,   \* _scanner_instance: whether it exists and its settings
                        \* (its fields are the scanner variables above)
    ipc_out,            \* the last command line and the DATA:/ERROR: lines it printed
    \* ---- python/hardware/scanner_types.py, ScannerSettings ----
    scanner_settings    \* the arguments of ScannerSettings(...) and, once
                        \* __post_init__ has run, what it left or raised

streamVars == <<streaming_active, streaming_thread, streaming_lock, camera_instance,
                workers, ipc_pc, last_resp, frame_lines, error_lines, stop_returned>>

scanVars == <<num_frames, use_mock, is_initialized, camera, daq, cam_is_open,
              daq_is_initialized, current_position, scan_pc, frame_idx,
              frames_captured, on_frame, exc, calls, scan_result, ever_initialized, life_calls, life_result>>

execVars == <<task, exec_pc, retry_count, done, exec_exc, wait_attempts, last_wait,
              exec_calls, exec_result>>

\* The scanner's own state: scanVars without the fields of its DAQ object.
scannerVars == <<num_frames, use_mock, is_initialized, camera, daq, cam_is_open,
                 scan_pc, frame_idx, frames_captured, on_frame, exc, calls,
                 scan_result, ever_initialized, life_calls, life_result>>

\* The locals and history of _write_and_execute: execVars without self.task.
executionVars == <<exec_pc, retry_count, done, exec_exc, wait_attempts, last_wait,
                   exec_calls, exec_result>>

motionVars == <<motion_calls>>

pulseVars == <<sampling_rate, pulse_steps, pulse_direction, pulse_data>>

vars == <<streaming_active, streaming_thread, streaming_lock, camera_instance,
          workers, ipc_pc, last_resp, frame_lines, error_lines, stop_returned,
          num_frames, use_mock, is_initialized, camera, daq, cam_is_open,
          daq_is_initialized, current_position, scan_pc, frame_idx,
          frames_captured, on_frame, exc, calls, scan_result, ever_initialized,
          life_calls, life_result,
          task, exec_pc, retry_count, done, exec_exc, wait_attempts, last_wait,
          exec_calls, exec_result,
          motion_calls, sampling_rate, pulse_steps, pulse_direction, pulse_data,
          daq_instance, scanner_instance, ipc_out, scanner_settings>>

Threads == 1..MaxThreads

Abs(x) == IF x < 0 THEN -x ELSE x

Sat(n, max) == IF n < max THEN n + 1 ELSE max

(***************************************************************************)
(*                    Streaming: python/ipc_handler.py                     *)
(***************************************************************************)

\* threading.Thread.is_alive(): started and not yet returned.
Alive(t) == workers[t] \notin {"unborn", "dead"}

AliveWorkers == {t \in Threads : Alive(t)}

\* send_data(...) of a camera command.
Data(cmd, success, msg) ==
    [kind |-> "DATA", cmd |-> cmd, success |-> success, message |-> msg]

NoResp == [kind |-> "none", cmd |-> "none", success |-> FALSE, message |-> ""]

\* CameraSettings(**settings): "invalid" settings raise in __post_init__,
\* "none" is the empty dict of a command without settings.
SettingsInputs == {"none", "valid", "invalid"}

\* ---- the worker thread ----

\* Mutant of WorkerCheck: the loop does not test the signal.
WorkerCheckIgnoresSignal(t) ==
    /\ workers[t] = "check"
    /\ workers' = [workers EXCEPT ![t] = "camera"]
    /\ UNCHANGED <<streaming_active, streaming_thread, streaming_lock, camera_instance,
                   ipc_pc, last_resp, frame_lines, error_lines, stop_returned>>

\* while _streaming_active.is_set():
WorkerCheck(t) ==
    /\ workers[t] = "check"
    /\ workers' = [workers EXCEPT ![t] = IF streaming_active THEN "camera" ELSE "dead"]
    /\ UNCHANGED <<streaming_active, streaming_thread, streaming_lock, camera_instance,
                   ipc_pc, last_resp, frame_lines, error_lines, stop_returned>>

\* if _camera_instance is None or not _camera_instance.is_open: send_error; break
WorkerCamera(t) ==
    /\ workers[t] = "camera"
    /\ IF camera_instance # "open"
          THEN /\ workers' = [workers EXCEPT ![t] = "dead"]
               /\ error_lines' = Sat(error_lines, MaxFrameLines)
          ELSE /\ workers' = [workers EXCEPT ![t] = "capture"]
               /\ UNCHANGED error_lines
    /\ UNCHANGED <<streaming_active, streaming_thread, streaming_lock, camera_instance,
                   ipc_pc, last_resp, frame_lines, stop_returned>>

\* Mutant of WorkerCapture: a capture that raised is reported and the loop
\* goes on to its next iteration.
WorkerCaptureRetry(t, ok) ==
    /\ workers[t] = "capture"
    /\ IF ok
          THEN /\ workers' = [workers EXCEPT ![t] = "emit"]
               /\ UNCHANGED error_lines
          ELSE /\ workers' = [workers EXCEPT ![t] = "check"]
               /\ error_lines' = Sat(error_lines, MaxFrameLines)
    /\ UNCHANGED <<streaming_active, streaming_thread, streaming_lock, camera_instance,
                   ipc_pc, last_resp, frame_lines, stop_returned>>

\* frame_data = _camera_instance.grab_frame_base64(): the blocking call returns
\* a frame, or raises and the except clause prints the error and breaks
\* (Camera.grab_frame raises on a failed grab; the MockCamera of
\* camera_mock.py defines no grab_frame_base64, which raises AttributeError).
WorkerCapture(t, ok) ==
    /\ workers[t] = "capture"
    /\ IF ok
          THEN /\ workers' = [workers EXCEPT ![t] = "emit"]
               /\ UNCHANGED error_lines
          ELSE /\ workers' = [workers EXCEPT ![t] = "dead"]
               /\ error_lines' = Sat(error_lines, MaxFrameLines)
    /\ UNCHANGED <<streaming_active, streaming_thread, streaming_lock, camera_instance,
                   ipc_pc, last_resp, frame_lines, stop_returned>>

\* send_frame(frame_data)
WorkerEmit(t) ==
    /\ workers[t] = "emit"
    /\ frame_lines' = Sat(frame_lines, MaxFrameLines)
    /\ workers' = [workers EXCEPT ![t] = "sleep"]
    /\ UNCHANGED <<streaming_active, streaming_thread, streaming_lock, camera_instance,
                   ipc_pc, last_resp, error_lines, stop_returned>>

\* time.sleep(sleep_time), then back to the loop condition
WorkerSleep(t) ==
    /\ workers[t] = "sleep"
    /\ workers' = [workers EXCEPT ![t] = "check"]
    /\ UNCHANGED <<streaming_active, streaming_thread, streaming_lock, camera_instance,
                   ipc_pc, last_resp, frame_lines, error_lines, stop_returned>>

\* ---- the command thread (run_ipc_loop handles one line at a time) ----

\* get_camera_instance(settings) followed by camera.open(): the instance is
\* created when there is none, and open() succeeds or raises.
OpenedCamera(openOk) ==
    IF openOk THEN "open"
    ELSE IF camera_instance = "None" THEN "closed" ELSE camera_instance

\* action == "connect"
Connect(settings, openOk) ==
    /\ ipc_pc = "idle"
    /\ IF settings # "valid"
          THEN /\ last_resp' = Data("connect", FALSE, "error")
               /\ UNCHANGED camera_instance
          ELSE /\ camera_instance' = OpenedCamera(openOk)
               /\ last_resp' = Data("connect", openOk, IF openOk THEN "" ELSE "error")
    /\ UNCHANGED <<streaming_active, streaming_thread, streaming_lock, workers,
                   ipc_pc, frame_lines, error_lines, stop_returned>>

\* action == "disconnect": close_camera() drops the instance even when
\* close() raises.
Disconnect ==
    /\ ipc_pc = "idle"
    /\ camera_instance' = "None"
    /\ last_resp' = Data("disconnect", TRUE, "")
    /\ UNCHANGED <<streaming_active, streaming_thread, streaming_lock, workers,
                   ipc_pc, frame_lines, error_lines, stop_returned>>

\* The first thread id not used yet: threading.Thread(target=streaming_worker).
Unborn == {t \in Threads : workers[t] = "unborn"}

NewThread == CHOOSE t \in Unborn : \A u \in Unborn : t <= u

\* start_stream, already streaming: reply and return.
AlreadyStreaming ==
    /\ last_resp' = Data("start_stream", TRUE, "Already streaming")
    /\ UNCHANGED <<streaming_active, streaming_thread, streaming_lock, camera_instance,
                   workers, ipc_pc, frame_lines, error_lines, stop_returned>>

\* start_stream, not streaming: ensure the camera, set the signal, launch.
LaunchStream(settings, openOk) ==
    LET needsCamera == camera_instance # "open"
        raises == needsCamera /\ (settings # "valid" \/ ~openOk)
        cam == IF needsCamera /\ settings = "valid"
                  THEN OpenedCamera(openOk) ELSE camera_instance
    IN  /\ camera_instance' = cam
        /\ IF raises
              THEN /\ last_resp' = Data("start_stream", FALSE, "error")
                   /\ UNCHANGED <<streaming_active, streaming_thread, workers,
                                  stop_returned>>
              ELSE /\ Unborn # {}
                   /\ streaming_active' = TRUE
                   /\ streaming_thread' = NewThread
                   /\ workers' = [workers EXCEPT ![NewThread] = "check"]
                   /\ stop_returned' = FALSE
                   /\ last_resp' = Data("start_stream", TRUE, "")
        /\ UNCHANGED <<streaming_lock, ipc_pc, frame_lines, error_lines>>

\* Mutant of StartStream: the already-streaming test is left out.
StartStreamUnchecked(settings, openOk) ==
    /\ ipc_pc = "idle"
    /\ ~streaming_lock
    /\ LaunchStream(settings, openOk)

\* action == "start_stream": the whole handler runs inside `with _streaming_lock`
\* and nothing else takes the lock meanwhile.
StartStream(settings, openOk) ==
    /\ ipc_pc = "idle"
    /\ ~streaming_lock
    /\ IF streaming_active
          THEN AlreadyStreaming
          ELSE LaunchStream(settings, openOk)

\* Mutant of NotStreaming: the idle stop also releases the camera.
NotStreamingClosesCamera ==
    /\ last_resp' = Data("stop_stream", TRUE, "Not streaming")
    /\ camera_instance' = "None"
    /\ UNCHANGED <<streaming_active, streaming_thread, streaming_lock, workers,
                   ipc_pc, frame_lines, error_lines, stop_returned>>

\* stop_stream, not streaming: reply and return.
NotStreaming ==
    /\ last_resp' = Data("stop_stream", TRUE, "Not streaming")
    /\ UNCHANGED <<streaming_active, streaming_thread, streaming_lock, camera_instance,
                   workers, ipc_pc, frame_lines, error_lines, stop_returned>>

\* stop_stream, streaming: clear the signal and start waiting for the thread,
\* still inside the lock.
SignalStop ==
    /\ streaming_active' = FALSE
    /\ IF streaming_thread # 0
          THEN /\ ipc_pc' = "stop_join"
               /\ streaming_lock' = TRUE
               /\ UNCHANGED <<last_resp, stop_returned>>
          ELSE /\ last_resp' = Data("stop_stream", TRUE, "")
               /\ stop_returned' = TRUE
               /\ UNCHANGED <<ipc_pc, streaming_lock>>
    /\ UNCHANGED <<streaming_thread, camera_instance, workers, frame_lines, error_lines>>

\* action == "stop_stream", up to the join.
StopStream ==
    /\ ipc_pc = "idle"
    /\ ~streaming_lock
    /\ IF ~streaming_active THEN NotStreaming ELSE SignalStop

\* _streaming_thread.join(timeout=2.0) can only time out while the worker
\* stays in one place for two seconds: the pacing sleep is at most 1/30 s, the
\* capture call blocks (Camera.grab_frame waits up to 5000 ms for a result).
JoinTimesOut(t) == workers[t] = "capture"

\* join returns (the thread ended, or the timeout elapsed), the handle is
\* dropped, the lock released and the reply sent.
StopStreamJoin ==
    /\ ipc_pc = "stop_join"
    /\ \/ ~Alive(streaming_thread)
       \/ JoinTimesOut(streaming_thread)
    /\ streaming_thread' = 0
    /\ streaming_lock' = FALSE
    /\ ipc_pc' = "idle"
    /\ last_resp' = Data("stop_stream", TRUE, "")
    /\ stop_returned' = TRUE
    /\ UNCHANGED <<streaming_active, camera_instance, workers, frame_lines, error_lines>>

(***************************************************************************)
(*        Motion: python/hardware/daq.py and python/hardware/daq_mock.py   *)
(***************************************************************************)

\* DAQSettings.steps_per_revolution (default).
StepsPerRevolution == 6400

\* One revolution, and half of one, in position units.
Circle == 360 * num_frames

HalfCircle == 180 * num_frames

\* degrees_per_frame = 360.0 / num_frames, in position units.
DegreesPerFrame == 360

\* steps_needed = int(abs(degrees) * steps_per_revolution / 360.0)
StepsNeeded(d) == (Abs(d) * StepsPerRevolution) \div Circle

\* rotate(d) reaches the hardware (_write_and_execute) only on the real DAQ and
\* only for a non-zero step count: step() returns early for num_steps == 0.
RotateUsesHardware(d) == ~use_mock /\ StepsNeeded(d) > 0

\* Mutant of RotatedPosition: the direction of the angle is dropped.
RotatedPositionUnsigned(p, d) == (p + Abs(d)) % Circle

\* current_position = (current_position + degrees) % 360.0
RotatedPosition(p, d) == (p + d) % Circle

\* Mutant of DegreesToHome: always back the way the position was reached.
DegreesToHomeDirect(p) == 0 - p

\* DAQ.home: degrees_to_home = -current_position, the complementary arc when
\* it is longer than 180 degrees.
DegreesToHome(p) ==
    LET d == 0 - p
    IN  IF Abs(d) > HalfCircle
           THEN (Circle - Abs(d)) * (IF d > 0 THEN -1 ELSE 1)
           ELSE d

\* if abs(degrees_to_home) > 0.1: self.rotate(degrees_to_home)
HomeRotates(p) == 10 * Abs(DegreesToHome(p)) > num_frames

\* home() reaches the hardware only on the real DAQ (MockDAQ.home sets the
\* position and sleeps) and only when it has to move.
HomeUsesHardware(p) ==
    ~use_mock /\ HomeRotates(p) /\ RotateUsesHardware(DegreesToHome(p))

\* The outcomes of a call: it can fail only when it reaches the hardware.
Outcomes(usesHardware) == IF usesHardware THEN BOOLEAN ELSE {TRUE}

\* Position after home(): 0.0 on success; when the rotate inside it raises,
\* neither rotate nor home has assigned the position.
HomedPosition(p, ok) == IF ok THEN 0 ELSE p

\* Mutant of PositionAfterRotate: the position is assigned before step() runs.
PositionAfterRotateEarly(p, d, ok) == RotatedPosition(p, d)

\* Position after rotate(d): updated only after step() returned.
PositionAfterRotate(p, d, ok) == IF ok THEN RotatedPosition(p, d) ELSE p

(***************************************************************************)
(*                  Scanner: python/hardware/scanner.py                    *)
(***************************************************************************)

NoResult == [kind |-> "none", success |-> FALSE, frames_captured |-> 0, error |-> "None"]

\* raise RuntimeError(msg) out of perform_scan
Raised(msg) ==
    [kind |-> "raised", success |-> FALSE, frames_captured |-> 0, error |-> msg]

\* return ScanResult(success, frames_captured, output_path, error)
ScanResult(success, captured, error) ==
    [kind |-> "returned", success |-> success, frames_captured |-> captured,
     error |-> error]

Call(op, ok) == [op |-> op, ok |-> ok]

\* Camera.close() can raise only on the real camera and only while it is
\* open: it calls the device inside "if self.camera and self.is_open".
CloseOutcomes == Outcomes(~use_mock /\ camera # "None" /\ cam_is_open)

\* The calls cleanup() makes: camera.close() if there is a camera, then
\* daq.cleanup() if there is a DAQ.  DAQ.cleanup() and MockDAQ.cleanup() never
\* raise (DAQ.cleanup swallows what task.close() raises).
CleanupCalls(closeOk) ==
    (IF camera # "None" THEN <<Call("camera.close", closeOk)>> ELSE <<>>)
    \o (IF daq # "None" THEN <<Call("daq.cleanup", TRUE)>> ELSE <<>>)

\* Mutant of CleanupBody: camera.close() is not wrapped in try/except, so
\* what it raises leaves cleanup() at once.
CleanupBodyUnguarded(before, closeOk) ==
    IF closeOk
       THEN /\ cam_is_open' = IF camera # "None" THEN FALSE ELSE cam_is_open
            /\ daq_is_initialized' = IF daq # "None" THEN FALSE ELSE daq_is_initialized
            /\ camera' = "None"
            /\ daq' = "None"
            /\ is_initialized' = FALSE
            /\ life_calls' = before \o CleanupCalls(closeOk)
       ELSE /\ cam_is_open' = FALSE
            /\ life_calls' = Append(before, Call("camera.close", FALSE))
            /\ UNCHANGED <<daq_is_initialized, camera, daq, is_initialized>>

\* The body of Scanner.cleanup(): close the camera and clean up the DAQ,
\* swallowing what they raise, then clear the references and the flag.
\* Camera.close() sets is_open to False in a finally clause; DAQ.cleanup()
\* returns at once on a DAQ that is not initialized and otherwise always
\* clears its flag.  before: the calls already logged by the caller.
CleanupBody(before, closeOk) ==
    /\ cam_is_open' = IF camera # "None" THEN FALSE ELSE cam_is_open
    /\ daq_is_initialized' = IF daq # "None" THEN FALSE ELSE daq_is_initialized
    /\ camera' = "None"
    /\ daq' = "None"
    /\ is_initialized' = FALSE
    /\ life_calls' = before \o CleanupCalls(closeOk)

\* Scanner.cleanup() is called.
Cleanup(closeOk) ==
    /\ scan_pc = "idle"
    /\ closeOk \in CloseOutcomes
    /\ CleanupBody(<<>>, closeOk)
    /\ life_result' = "cleanup:returned"
    /\ UNCHANGED <<num_frames, use_mock, current_position, scan_pc, frame_idx,
                   frames_captured, on_frame, exc, calls, scan_result,
                   ever_initialized>>

\* Scanner.initialize() is called: a no-op on an initialized scanner,
\* otherwise into the try block.
Initialize ==
    /\ scan_pc = "idle"
    /\ life_calls' = <<>>
    /\ IF is_initialized
          THEN /\ life_result' = "initialize:noop"
               /\ UNCHANGED scan_pc
          ELSE /\ life_result' = "initialize:running"
               /\ scan_pc' = "init_camera"
    /\ UNCHANGED <<num_frames, use_mock, is_initialized, camera, daq, cam_is_open,
                   daq_is_initialized, current_position, frame_idx,
                   frames_captured, on_frame, exc, calls, scan_result,
                   ever_initialized>>

\* initialize, lines 61-70: the camera object is created and opened.
\* MockCamera.open() cannot fail; Camera.open() leaves is_open False when it
\* raises.
InitializeCamera(ok) ==
    /\ scan_pc = "init_camera"
    /\ ok \in Outcomes(~use_mock)
    /\ camera' = "obj"
    /\ cam_is_open' = ok
    /\ life_calls' = Append(life_calls, Call("camera.open", ok))
    /\ scan_pc' = IF ok THEN "init_daq" ELSE "init_except"
    /\ UNCHANGED <<num_frames, use_mock, is_initialized, daq, daq_is_initialized,
                   current_position, frame_idx, frames_captured, on_frame, exc,
                   calls, scan_result, ever_initialized, life_result>>

\* Mutant of InitializeDaq: the scanner's flag is set before daq.initialize()
\* is called.
InitializeDaqFlagFirst(ok) ==
    /\ scan_pc = "init_daq"
    /\ ok \in Outcomes(~use_mock)
    /\ daq' = "obj"
    /\ daq_is_initialized' = ok
    /\ current_position' = 0
    /\ is_initialized' = TRUE
    /\ ever_initialized' = TRUE
    /\ life_calls' = Append(life_calls, Call("daq.initialize", ok))
    /\ life_result' = IF ok THEN "initialize:returned" ELSE life_result
    /\ scan_pc' = IF ok THEN "idle" ELSE "init_except"
    /\ UNCHANGED <<num_frames, use_mock, camera, cam_is_open, frame_idx,
                   frames_captured, on_frame, exc, calls, scan_result>>

\* initialize, lines 72-84: the DAQ object is created (position 0.0, not
\* initialized) and initialized; then the scanner's flag is set.
\* MockDAQ.initialize() cannot fail; DAQ.initialize() leaves is_initialized
\* False when it raises.
InitializeDaq(ok) ==
    /\ scan_pc = "init_daq"
    /\ ok \in Outcomes(~use_mock)
    /\ daq' = "obj"
    /\ daq_is_initialized' = ok
    /\ current_position' = 0
    /\ is_initialized' = ok
    /\ ever_initialized' = (ever_initialized \/ ok)
    /\ life_calls' = Append(life_calls, Call("daq.initialize", ok))
    /\ life_result' = IF ok THEN "initialize:returned" ELSE life_result
    /\ scan_pc' = IF ok THEN "idle" ELSE "init_except"
    /\ UNCHANGED <<num_frames, use_mock, camera, cam_is_open, frame_idx,
                   frames_captured, on_frame, exc, calls, scan_result>>

\* Mutant of InitializeExcept: the except clause raises without cleanup().
InitializeExceptNoCleanup(closeOk) ==
    /\ scan_pc = "init_except"
    /\ closeOk \in CloseOutcomes
    /\ life_result' = "initialize:raised"
    /\ scan_pc' = "idle"
    /\ UNCHANGED <<num_frames, use_mock, is_initialized, camera, daq, cam_is_open,
                   daq_is_initialized, current_position, frame_idx,
                   frames_captured, on_frame, exc, calls, scan_result,
                   ever_initialized, life_calls>>

\* initialize, lines 86-90: the except clause runs cleanup() and raises
\* RuntimeError.
InitializeExcept(closeOk) ==
    /\ scan_pc = "init_except"
    /\ closeOk \in CloseOutcomes
    /\ CleanupBody(life_calls, closeOk)
    /\ life_result' = "initialize:raised"
    /\ scan_pc' = "idle"
    /\ UNCHANGED <<num_frames, use_mock, current_position, frame_idx,
                   frames_captured, on_frame, exc, calls, scan_result,
                   ever_initialized>>

\* perform_scan, lines 145-149: the two guards raise before anything is touched.
ScanNotInitialized ==
    /\ scan_result' = Raised("Scanner not initialized. Call initialize() first.")
    /\ UNCHANGED <<num_frames, use_mock, is_initialized, camera, daq, cam_is_open,
                   daq_is_initialized, current_position, scan_pc, frame_idx,
                   frames_captured, on_frame, exc, calls, ever_initialized, life_calls, life_result>>

ScanNoHardware ==
    /\ scan_result' = Raised("Scanner hardware not available")
    /\ UNCHANGED <<num_frames, use_mock, is_initialized, camera, daq, cam_is_open,
                   daq_is_initialized, current_position, scan_pc, frame_idx,
                   frames_captured, on_frame, exc, calls, ever_initialized, life_calls, life_result>>

\* perform_scan, lines 151-162: the locals, then into the try block.
ScanBegin(callback) ==
    /\ frames_captured' = 0
    /\ frame_idx' = 0
    /\ on_frame' = callback
    /\ exc' = "None"
    /\ calls' = <<>>
    /\ scan_result' = NoResult
    /\ scan_pc' = "home"
    /\ UNCHANGED <<num_frames, use_mock, is_initialized, camera, daq, cam_is_open,
                   daq_is_initialized, current_position, ever_initialized, life_calls, life_result>>

\* Mutant of PerformScan: the is_initialized guard is left out.
PerformScanUnchecked(callback) ==
    /\ scan_pc = "idle"
    /\ IF camera = "None" \/ daq = "None" THEN ScanNoHardware
       ELSE ScanBegin(callback)

\* perform_scan(on_frame) is called.
PerformScan(callback) ==
    /\ scan_pc = "idle"
    /\ IF ~is_initialized THEN ScanNotInitialized
       ELSE IF camera = "None" \/ daq = "None" THEN ScanNoHardware
       ELSE ScanBegin(callback)

\* Mutant of ScanHome: the scan starts to rotate from wherever the turntable
\* is.
ScanHomeSkipped(ok) ==
    /\ scan_pc = "home"
    /\ ok
    /\ scan_pc' = "rotate"
    /\ UNCHANGED <<num_frames, use_mock, is_initialized, camera, daq, cam_is_open,
                   daq_is_initialized, current_position, frame_idx, frames_captured,
                   on_frame, exc, calls, scan_result, ever_initialized, life_calls,
                   life_result>>

\* self.daq.home() before the loop (line 165)
ScanHome(ok) ==
    /\ scan_pc = "home"
    /\ ok \in Outcomes(HomeUsesHardware(current_position))
    /\ current_position' = HomedPosition(current_position, ok)
    /\ calls' = Append(calls, Call("home", ok))
    /\ scan_pc' = IF ok THEN "rotate" ELSE "except"
    /\ exc' = IF ok THEN exc ELSE "home"
    /\ UNCHANGED <<num_frames, use_mock, is_initialized, camera, daq, cam_is_open,
                   daq_is_initialized, frame_idx, frames_captured, on_frame,
                   scan_result, ever_initialized, life_calls, life_result>>

\* Mutant of ScanRotate: a rotate that raised is tried again.
ScanRotateRetry(ok) ==
    /\ scan_pc = "rotate"
    /\ ok \in Outcomes(RotateUsesHardware(DegreesPerFrame))
    /\ current_position' = PositionAfterRotate(current_position, DegreesPerFrame, ok)
    /\ calls' = Append(calls, Call("rotate", ok))
    /\ scan_pc' = IF ok THEN "grab" ELSE "rotate"
    /\ exc' = exc
    /\ UNCHANGED <<num_frames, use_mock, is_initialized, camera, daq, cam_is_open,
                   daq_is_initialized, frame_idx, frames_captured, on_frame,
                   scan_result, ever_initialized, life_calls, life_result>>

\* self.daq.rotate(degrees_per_frame) (line 171)
ScanRotate(ok) ==
    /\ scan_pc = "rotate"
    /\ ok \in Outcomes(RotateUsesHardware(DegreesPerFrame))
    /\ current_position' = PositionAfterRotate(current_position, DegreesPerFrame, ok)
    /\ calls' = Append(calls, Call("rotate", ok))
    /\ scan_pc' = IF ok THEN "grab" ELSE "except"
    /\ exc' = IF ok THEN exc ELSE "rotate"
    /\ UNCHANGED <<num_frames, use_mock, is_initialized, camera, daq, cam_is_open,
                   daq_is_initialized, frame_idx, frames_captured, on_frame,
                   scan_result, ever_initialized, life_calls, life_result>>

\* Mutant of AfterFrame: the loop runs one iteration too many.
AfterFrameOffByOne == IF frame_idx < num_frames THEN "rotate" ELSE "return_home"

\* for frame_idx in range(num_frames): the next iteration, or past the loop.
AfterFrame == IF frame_idx + 1 < num_frames THEN "rotate" ELSE "return_home"

\* Camera.grab_frame raises when the grab fails and MockCamera.grab_frame when
\* the camera is not open; neither returns None.
GrabOutcomes ==
    IF ~cam_is_open THEN {"raise"}
    ELSE IF use_mock THEN {"image"}
    ELSE {"image", "raise"}

\* frames_captured += 1 for a frame that is not None
CapturedAfter(image) == IF image # "None" THEN frames_captured + 1 ELSE frames_captured

\* image = self.camera.grab_frame() and the test of the image (lines 184-197)
ScanGrab(image) ==
    /\ scan_pc = "grab"
    /\ image \in GrabOutcomes
    /\ calls' = Append(calls, Call("grab_frame", image # "raise"))
    /\ IF image = "raise"
          THEN /\ scan_pc' = "except"
               /\ exc' = "grab_frame"
               /\ UNCHANGED <<frames_captured, frame_idx>>
          ELSE /\ frames_captured' = CapturedAfter(image)
               /\ exc' = exc
               /\ IF image # "None" /\ on_frame
                     THEN /\ scan_pc' = "callback"
                          /\ UNCHANGED frame_idx
                     ELSE /\ scan_pc' = AfterFrame
                          /\ frame_idx' = frame_idx + 1
    /\ UNCHANGED <<num_frames, use_mock, is_initialized, camera, daq, cam_is_open,
                   daq_is_initialized, current_position, on_frame, scan_result,
                   ever_initialized, life_calls, life_result>>

\* Mutant of FrameCall: the callback is given the one-based frame number.
FrameCallOneBased(ok) ==
    [op |-> "on_frame", ok |-> ok, frame_idx |-> frame_idx + 1,
     position |-> current_position]

\* The call on_frame(frame_idx, position) as it is logged; position was read by
\* get_position() after the rotate of this iteration (line 177) and nothing
\* moves the turntable in between.
FrameCall(ok) ==
    [op |-> "on_frame", ok |-> ok, frame_idx |-> frame_idx,
     position |-> current_position]

\* on_frame(frame_idx, position) (line 191): the caller's code may raise.
ScanCallback(ok) ==
    /\ scan_pc = "callback"
    /\ calls' = Append(calls, FrameCall(ok))
    /\ IF ok
          THEN /\ scan_pc' = AfterFrame
               /\ frame_idx' = frame_idx + 1
               /\ exc' = exc
          ELSE /\ scan_pc' = "except"
               /\ exc' = "on_frame"
               /\ UNCHANGED frame_idx
    /\ UNCHANGED <<num_frames, use_mock, is_initialized, camera, daq, cam_is_open,
                   daq_is_initialized, current_position, frames_captured, on_frame,
                   scan_result, ever_initialized, life_calls, life_result>>

\* lines 204-226: success = frames_captured == num_frames and the result.
Report(captured) ==
    ScanResult(captured = num_frames, captured,
               IF captured = num_frames THEN "None" ELSE "Only k/n frames captured")

\* self.daq.home() after the loop (line 200), then the report.
ScanReturnHome(ok) ==
    /\ scan_pc = "return_home"
    /\ ok \in Outcomes(HomeUsesHardware(current_position))
    /\ current_position' = HomedPosition(current_position, ok)
    /\ calls' = Append(calls, Call("home", ok))
    /\ IF ok
          THEN /\ scan_result' = Report(frames_captured)
               /\ scan_pc' = "idle"
               /\ exc' = exc
          ELSE /\ scan_pc' = "except"
               /\ exc' = "home"
               /\ UNCHANGED scan_result
    /\ UNCHANGED <<num_frames, use_mock, is_initialized, camera, daq, cam_is_open,
                   daq_is_initialized, frame_idx, frames_captured, on_frame,
                   ever_initialized, life_calls, life_result>>

\* error_msg = f"Scan failed: {str(e)}"
ScanFailed(e) == "Scan failed: " \o e

\* Mutant of FailedResult: success is computed from the count as on the
\* normal path.
FailedResultByCount ==
    ScanResult(frames_captured = num_frames, frames_captured, ScanFailed(exc))

\* lines 239-244: the result of the except clause.
FailedResult == ScanResult(FALSE, frames_captured, ScanFailed(exc))

\* Mutant of ScanExcept: no recovery home.
ScanExceptNoHome(ok) ==
    /\ scan_pc = "except"
    /\ ok = TRUE
    /\ scan_result' = FailedResult
    /\ scan_pc' = "idle"
    /\ UNCHANGED <<num_frames, use_mock, is_initialized, camera, daq, cam_is_open,
                   daq_is_initialized, current_position, frame_idx, frames_captured,
                   on_frame, exc, calls, ever_initialized, life_calls, life_result>>

\* Mutant of ScanExcept: a failure of the recovery home is not swallowed.
ScanExceptNoSwallow(ok) ==
    /\ scan_pc = "except"
    /\ ok \in Outcomes(HomeUsesHardware(current_position))
    /\ current_position' = HomedPosition(current_position, ok)
    /\ calls' = Append(calls, Call("recovery_home", ok))
    /\ scan_result' = IF ok THEN FailedResult ELSE Raised(ScanFailed("home"))
    /\ scan_pc' = "idle"
    /\ UNCHANGED <<num_frames, use_mock, is_initialized, camera, daq, cam_is_open,
                   daq_is_initialized, frame_idx, frames_captured, on_frame, exc,
                   ever_initialized, life_calls, life_result>>

\* The except clause (lines 228-244): home() once more inside its own
\* try/except-pass, then the failed result.
ScanExcept(ok) ==
    /\ scan_pc = "except"
    /\ IF daq # "None"
          THEN /\ ok \in Outcomes(HomeUsesHardware(current_position))
               /\ current_position' = HomedPosition(current_position, ok)
               /\ calls' = Append(calls, Call("recovery_home", ok))
          ELSE /\ ok = TRUE
               /\ UNCHANGED <<current_position, calls>>
    /\ scan_result' = FailedResult
    /\ scan_pc' = "idle"
    /\ UNCHANGED <<num_frames, use_mock, is_initialized, camera, daq, cam_is_open,
                   daq_is_initialized, frame_idx, frames_captured, on_frame, exc,
                   ever_initialized, life_calls, life_result>>

(***************************************************************************)
(*          Execution: DAQ._write_and_execute of python/hardware/daq.py    *)
(***************************************************************************)

\* DAQ_RETRY_MAX_ATTEMPTS
DAQ_RETRY_MAX_ATTEMPTS == 1000

\* An exception object: its Python type and str().
Error(type, message) == [type |-> type, message |-> message]

NoError == Error("None", "")

\* The DaqError of a failed task call other than a wait timeout.
DaqError(call) == Error("DaqError", call)

NoExecution == [kind |-> "none", type |-> "None", message |-> ""]

\* _write_and_execute returned
Executed == [kind |-> "returned", type |-> "None", message |-> ""]

\* raise e
Raise(e) == [kind |-> "raised", type |-> e.type, message |-> e.message]

\* TimeoutError(f"DAQ task did not complete after {DAQ_RETRY_MAX_ATTEMPTS}
\* retries (5s timeout)")
TimedOut == Error("TimeoutError", "DAQ task did not complete after 1000 retries (5s timeout)")

\* RuntimeError(f"DAQ execution failed: {e}")
ExecutionFailed(e) == Error("RuntimeError", "DAQ execution failed: " \o e.message)

\* _write_and_execute(data) is called (lines 262-265): without a task it
\* raises before the try block, otherwise the locals start afresh.
WriteAndExecute ==
    /\ exec_pc = "idle"
    /\ IF task = "None"
          THEN /\ exec_result' = Raise(Error("RuntimeError", "DAQ task not initialized"))
               /\ UNCHANGED exec_pc
          ELSE /\ exec_result' = NoExecution
               /\ exec_pc' = "cfg"
    /\ retry_count' = 0
    /\ done' = FALSE
    /\ exec_exc' = NoError
    /\ wait_attempts' = 0
    /\ last_wait' = "none"
    /\ exec_calls' = <<>>
    /\ UNCHANGED task

\* self.task.timing.cfg_samp_clk_timing(...) (lines 267-271)
ExecConfigure(ok) ==
    /\ exec_pc = "cfg"
    /\ exec_calls' = Append(exec_calls, Call("cfg_samp_clk_timing", ok))
    /\ exec_pc' = IF ok THEN "write" ELSE "except"
    /\ exec_exc' = IF ok THEN exec_exc ELSE DaqError("cfg_samp_clk_timing")
    /\ UNCHANGED <<task, retry_count, done, wait_attempts, last_wait, exec_result>>

\* self.task.write(data, auto_start=False) (line 274)
ExecWrite(ok) ==
    /\ exec_pc = "write"
    /\ exec_calls' = Append(exec_calls, Call("write", ok))
    /\ exec_pc' = IF ok THEN "start" ELSE "except"
    /\ exec_exc' = IF ok THEN exec_exc ELSE DaqError("write")
    /\ UNCHANGED <<task, retry_count, done, wait_attempts, last_wait, exec_result>>

\* self.task.start(); retry_count = 0; done = False (lines 277-281)
ExecStart(ok) ==
    /\ exec_pc = "start"
    /\ exec_calls' = Append(exec_calls, Call("start", ok))
    /\ exec_pc' = IF ok THEN "loop" ELSE "except"
    /\ exec_exc' = IF ok THEN exec_exc ELSE DaqError("start")
    /\ retry_count' = 0
    /\ done' = FALSE
    /\ UNCHANGED <<task, wait_attempts, last_wait, exec_result>>

\* Mutant of WaitAgain: the bound is tested with <=.
WaitAgainInclusive == ~done /\ retry_count <= DAQ_RETRY_MAX_ATTEMPTS

\* while not done and retry_count < DAQ_RETRY_MAX_ATTEMPTS (line 282)
WaitAgain == ~done /\ retry_count < DAQ_RETRY_MAX_ATTEMPTS

\* The loop test, and after the loop "if not done: raise TimeoutError(...)"
\* (lines 282, 293-296).
ExecLoop ==
    /\ exec_pc = "loop"
    /\ IF WaitAgain
          THEN /\ exec_pc' = "wait"
               /\ UNCHANGED exec_exc
          ELSE IF ~done
                  THEN /\ exec_pc' = "except"
                       /\ exec_exc' = TimedOut
                  ELSE /\ exec_pc' = "stop"
                       /\ UNCHANGED exec_exc
    /\ UNCHANGED <<task, retry_count, done, wait_attempts, last_wait, exec_calls,
                   exec_result>>

\* What one wait_until_done(timeout=0.005) can do: return, raise the DaqError
\* with error code DAQ_ERROR_TIMEOUT, or raise anything else.
WaitOutcomes == {"done", "timeout", "error"}

\* The body of the loop (lines 283-291): done on return, one more retry on
\* the timeout code, any other exception leaves the loop for the except
\* clause.
ExecWait(outcome) ==
    /\ exec_pc = "wait"
    /\ wait_attempts' = wait_attempts + 1
    /\ last_wait' = outcome
    /\ done' = (outcome = "done")
    /\ retry_count' = IF outcome = "timeout" THEN retry_count + 1 ELSE retry_count
    /\ exec_pc' = IF outcome = "error" THEN "except" ELSE "loop"
    /\ exec_exc' = IF outcome = "error" THEN DaqError("wait_until_done") ELSE exec_exc
    /\ UNCHANGED <<task, exec_calls, exec_result>>

\* self.task.stop() (line 299), then the method returns
ExecStop(ok) ==
    /\ exec_pc = "stop"
    /\ exec_calls' = Append(exec_calls, Call("stop", ok))
    /\ exec_pc' = IF ok THEN "idle" ELSE "except"
    /\ exec_exc' = IF ok THEN exec_exc ELSE DaqError("stop")
    /\ exec_result' = IF ok THEN Executed ELSE exec_result
    /\ UNCHANGED <<task, retry_count, done, wait_attempts, last_wait>>

\* raise RuntimeError(f"DAQ execution failed: {e}") (line 308)
RaisedFromExcept(e) == Raise(ExecutionFailed(e))

\* Mutant of ExecExcept: the except clause does not stop the task.
ExecExceptNoStop(stopOk) ==
    /\ exec_pc = "except"
    /\ exec_result' = RaisedFromExcept(exec_exc)
    /\ exec_pc' = "idle"
    /\ UNCHANGED <<task, retry_count, done, exec_exc, wait_attempts, last_wait,
                   exec_calls>>

\* The except clause (lines 301-308): stop the task, ignoring what that
\* raises, then raise RuntimeError carrying the text of the exception.
ExecExcept(stopOk) ==
    /\ exec_pc = "except"
    /\ exec_calls' = Append(exec_calls, Call("except.stop", stopOk))
    /\ exec_result' = RaisedFromExcept(exec_exc)
    /\ exec_pc' = "idle"
    /\ UNCHANGED <<task, retry_count, done, exec_exc, wait_attempts, last_wait>>

(***************************************************************************)
(*   DAQ operations: python/hardware/daq.py and python/hardware/daq_mock.py *)
(*                                                                         *)
(* A DAQ or MockDAQ used on its own.  It never reads settings.num_frames,  *)
(* which only fixes the position unit of this module, 1/num_frames degree. *)
(***************************************************************************)

\* Position units per degree of a DAQ used on its own.
PositionResolution == 20

\* Number of rotate() and home() calls followed after one initialize().
MaxMoves == 3

\* The angles passed to rotate(), in position units: 0, a unit either way
\* (under one motor step), and 5, -45, 45 and 90 degrees.
RotateInputs ==
    {0, 1, -1, 5 * num_frames, -45 * num_frames, 45 * num_frames, 90 * num_frames}

\* direction = 1 if degrees >= 0 else -1
Direction(d) == IF d >= 0 THEN 1 ELSE -1

\* One rotate() or home() call: the angle passed, the position before and
\* after, the rotate() calls it made (itself, for rotate) with their angle,
\* step count and direction, and the error it raised.
Move(op, arg, from, to, rotates, delta, steps, direction, error) ==
    [op |-> op, arg |-> arg, from |-> from, to |-> to, rotates |-> rotates,
     delta |-> delta, steps |-> steps, direction |-> direction, error |-> error]

\* raise RuntimeError("DAQ not initialized. Call initialize() first.")
NotInitialized(op, arg) ==
    Move(op, arg, current_position, current_position, 0, 0, 0, 0, "NotInitialized")

\* What initialize() can do on a DAQ that is not initialized.  MockDAQ always
\* succeeds.  DAQ succeeds, or fails and closes the task it created, or fails
\* and task.close() raises inside the except clause before task is cleared.
InitializeOutcomes ==
    IF use_mock THEN {"ok"} ELSE {"ok", "failed", "failed_close_raised"}

\* One initialize() or cleanup() call that was logged: the position and the
\* flag before and after it, the task handle after it, what task.close() did
\* in it ("none" when it was not called) and the error the call raised.
Lifecycle(op, close, error) ==
    [op |-> op, arg |-> 0, from |-> current_position, to |-> current_position',
     was_initialized |-> daq_is_initialized, initialized |-> daq_is_initialized',
     task |-> task', close |-> close, error |-> error]

\* Mutant of AlreadyInitialized: initialize() has no early return.
AlreadyInitializedIgnored == FALSE

\* if self.is_initialized: return True
AlreadyInitialized == daq_is_initialized

\* DAQ.initialize() / MockDAQ.initialize(): a no-op when already initialized;
\* a successful one starts the log afresh.
DaqInitialize(outcome) ==
    /\ outcome \in InitializeOutcomes
    /\ IF AlreadyInitialized
          THEN /\ outcome = "ok"
               /\ Len(motion_calls) < MaxMoves
               /\ UNCHANGED <<daq_is_initialized, current_position, task>>
               /\ motion_calls' = Append(motion_calls, Lifecycle("initialize", "none", "None"))
          ELSE IF outcome = "ok"
                  THEN /\ daq_is_initialized' = TRUE
                       /\ current_position' = 0
                       /\ task' = IF use_mock THEN task ELSE "open"
                       /\ motion_calls' = <<>>
                  ELSE /\ Len(motion_calls) < MaxMoves
                       /\ task' = IF outcome = "failed" THEN "None" ELSE "open"
                       /\ UNCHANGED <<daq_is_initialized, current_position>>
                       /\ motion_calls' = Append(motion_calls,
                             Lifecycle("initialize",
                                       IF outcome = "failed" THEN "none" ELSE "raised",
                                       "Failed"))

\* DAQ.rotate(degrees) / MockDAQ.rotate(degrees)
DaqRotate(d, ok) ==
    /\ Len(motion_calls) < MaxMoves
    /\ d \in RotateInputs
    /\ IF ~daq_is_initialized \/ (~use_mock /\ task = "None")
          THEN /\ ok
               /\ motion_calls' = Append(motion_calls, NotInitialized("rotate", d))
               /\ UNCHANGED current_position
          ELSE /\ ok \in Outcomes(RotateUsesHardware(d))
               /\ current_position' = PositionAfterRotate(current_position, d, ok)
               /\ motion_calls' = Append(motion_calls,
                     Move("rotate", d, current_position,
                          PositionAfterRotate(current_position, d, ok), 1, d,
                          StepsNeeded(d), Direction(d),
                          IF ok THEN "None" ELSE "Execution"))
    /\ UNCHANGED <<daq_is_initialized, task>>

\* Whether home() calls rotate(): MockDAQ.home() never does.
HomeCallsRotate(p) == ~use_mock /\ HomeRotates(p)

\* DAQ.home() / MockDAQ.home()
DaqHome(ok) ==
    /\ Len(motion_calls) < MaxMoves
    /\ IF ~daq_is_initialized
          THEN /\ ok
               /\ motion_calls' = Append(motion_calls, NotInitialized("home", 0))
               /\ UNCHANGED current_position
          ELSE /\ ok \in Outcomes(HomeUsesHardware(current_position))
               /\ current_position' = HomedPosition(current_position, ok)
               /\ motion_calls' = Append(motion_calls,
                     IF HomeCallsRotate(current_position)
                        THEN Move("home", 0, current_position,
                                  HomedPosition(current_position, ok), 1,
                                  DegreesToHome(current_position),
                                  StepsNeeded(DegreesToHome(current_position)),
                                  Direction(DegreesToHome(current_position)),
                                  IF ok THEN "None" ELSE "Execution")
                        ELSE Move("home", 0, current_position,
                                  HomedPosition(current_position, ok), 0, 0, 0, 0,
                                  "None"))
    /\ UNCHANGED <<daq_is_initialized, task>>

\* The steps step(n, direction) is called with: a quarter turn either way,
\* no step, a negative count and a direction that is neither 1 nor -1.
StepInputs ==
    {<<StepsPerRevolution \div 4, 1>>, <<StepsPerRevolution \div 4, -1>>,
     <<0, 1>>, <<-1, 1>>, <<StepsPerRevolution \div 4, 0>>}

\* MockDAQ.step: degrees = (num_steps / steps_per_revolution) * 360.0 *
\* direction, in position units (exact for the counts of StepInputs).
StepDegrees(n, direction) == ((n * Circle) \div StepsPerRevolution) * direction

\* The position step() leaves: MockDAQ.step adds the angle of the steps,
\* DAQ.step does not assign current_position.
PositionAfterStep(p, n, direction) ==
    IF use_mock THEN RotatedPosition(p, StepDegrees(n, direction)) ELSE p

\* DAQ.step(num_steps, direction) / MockDAQ.step(num_steps, direction)
DaqStep(n, direction, ok) ==
    /\ Len(motion_calls) < MaxMoves
    /\ <<n, direction>> \in StepInputs
    /\ IF ~daq_is_initialized \/ (~use_mock /\ task = "None")
          THEN /\ ok
               /\ motion_calls' = Append(motion_calls, NotInitialized("step", n))
               /\ UNCHANGED current_position
          ELSE IF direction \notin {1, -1} \/ n < 0
                  THEN /\ ok
                       /\ motion_calls' = Append(motion_calls,
                             Move("step", n, current_position, current_position,
                                  0, 0, n, direction, "ValueError"))
                       /\ UNCHANGED current_position
                  ELSE /\ ok \in Outcomes(~use_mock /\ n > 0)
                       /\ current_position' =
                             IF ok THEN PositionAfterStep(current_position, n, direction)
                                   ELSE current_position
                       /\ motion_calls' = Append(motion_calls,
                             Move("step", n, current_position, current_position',
                                  0, 0, n, direction,
                                  IF ok THEN "None" ELSE "Execution"))
    /\ UNCHANGED <<daq_is_initialized, task>>

\* DAQ.cleanup() / MockDAQ.cleanup(): returns at once on a DAQ that is not
\* initialized; otherwise the task is closed (what close() raises is
\* swallowed), cleared, and the flag is cleared.
DaqCleanup(closeOk) ==
    /\ Len(motion_calls) < MaxMoves
    /\ closeOk \in Outcomes(~use_mock /\ daq_is_initialized /\ task # "None")
    /\ UNCHANGED current_position
    /\ IF ~daq_is_initialized
          THEN /\ UNCHANGED <<daq_is_initialized, task>>
               /\ motion_calls' = Append(motion_calls, Lifecycle("cleanup", "none", "None"))
          ELSE /\ daq_is_initialized' = FALSE
               /\ task' = "None"
               /\ motion_calls' = Append(motion_calls,
                     Lifecycle("cleanup",
                               IF use_mock \/ task = "None" THEN "none"
                               ELSE IF closeOk THEN "ok" ELSE "raised",
                               "None"))

(***************************************************************************)
(*     Pulse generation: DAQ._generate_step_pulses of hardware/daq.py      *)
(***************************************************************************)

\* Largest num_steps passed to _generate_step_pulses.
MaxSteps == 3

\* Largest settings.sampling_rate, in Hz.
MaxSamplingRate == 4000

\* The sampling rates tried: every quarter of the pulse frequency.
SamplingRates == {r \in 1..MaxSamplingRate : r % 250 = 0}

\* pulse_frequency = 1000
PulseFrequency == 1000

\* samples_per_step = int(self.settings.sampling_rate / pulse_frequency)
SamplesPerStep(r) == r \div PulseFrequency

\* Mutant of HalfSamples: the half is rounded up.
HalfSamplesRoundedUp(r) == (SamplesPerStep(r) + 1) \div 2

\* half_samples = samples_per_step // 2
HalfSamples(r) == SamplesPerStep(r) \div 2

\* [x] * k
Repeat(x, k) == [i \in 1..k |-> x]

\* The list samples after n rounds of the loop: per step, half_samples of 0.0
\* then half_samples of 1.0 (kept as the integers 0 and 1).
RECURSIVE Samples(_, _)
Samples(n, r) ==
    IF n = 0 THEN <<>>
    ELSE Samples(n - 1, r) \o Repeat(0, HalfSamples(r)) \o Repeat(1, HalfSamples(r))

\* step_channel = np.array(samples) > 0.5
StepChannel(samples) == [i \in 1..Len(samples) |-> 2 * samples[i] > 1]

\* dir_channel = np.full(len(step_channel), direction > 0, dtype=bool)
DirChannel(len, direction) == Repeat(direction > 0, len)

\* data = np.vstack([step_channel, dir_channel])
StepPulses(n, direction, r) ==
    [step |-> StepChannel(Samples(n, r)),
     dir  |-> DirChannel(Len(StepChannel(Samples(n, r))), direction)]

\* _generate_step_pulses(num_steps, direction) is called.
GenerateStepPulses ==
    /\ pulse_data = <<>>
    /\ pulse_data' = <<StepPulses(pulse_steps, pulse_direction, sampling_rate)>>
    /\ UNCHANGED <<sampling_rate, pulse_steps, pulse_direction>>

(***************************************************************************)
(*   Commands: handle_command and its handlers in python/ipc_handler.py    *)
(*                                                                         *)
(* One action per command line, from json.loads to the last line printed.  *)
(* STATUS: lines are not responses and are left out.                       *)
(***************************************************************************)

\* send_data({"success": success, ...}) and send_data({"success": False,
\* "error": error})
DataLine(success, error) == [kind |-> "DATA", success |-> success, error |-> error]

\* send_error(message)
ErrorLine(message) == [kind |-> "ERROR", success |-> FALSE, error |-> message]

Output(cmd, lines) == [cmd |-> cmd, lines |-> lines]

\* _daq_instance = None
NoDaq == [exists |-> FALSE, is_initialized |-> FALSE, position |-> 0,
          settings |-> 0, session |-> 0]

\* _scanner_instance = None. last: what the last initialize command did about
\* the instance ("created", "reused" or "replaced"); orphan_open: a Scanner
\* object that is no longer referenced still holds open hardware.
NoScanner == [exists |-> FALSE, settings |-> 0, last |-> "none", orphan_open |-> FALSE]

\* run_ipc_loop is still inside `for line in sys.stdin`.
LoopReading == ipc_out.cmd # "fatal"

\* get_daq_instance(settings): a new DAQ when there is none, otherwise the
\* settings of the existing one are replaced.
GotDaq(settings) ==
    IF daq_instance.exists
       THEN [daq_instance EXCEPT !.settings = settings]
       ELSE [exists |-> TRUE, is_initialized |-> FALSE, position |-> 0,
             settings |-> settings, session |-> 0]

\* {"command": "daq", "action": "initialize", "settings": ...}; settings 0 is
\* a dictionary that DAQSettings rejects, 1 and 2 are valid ones that differ.
IpcDaqInitialize(settings, ok) ==
    /\ LoopReading
    /\ settings \in 0..2
    /\ IF settings = 0
          THEN /\ ok
               /\ ipc_out' = Output("daq.initialize", <<DataLine(FALSE, "invalid settings")>>)
               /\ UNCHANGED daq_instance
          ELSE IF GotDaq(settings).is_initialized
                  THEN /\ ok
                       /\ daq_instance' = GotDaq(settings)
                       /\ ipc_out' = Output("daq.initialize", <<DataLine(TRUE, "")>>)
                  ELSE /\ ok \in Outcomes(~use_mock)
                       /\ daq_instance' =
                             IF ok THEN [GotDaq(settings) EXCEPT !.is_initialized = TRUE,
                                                                 !.position = 0,
                                                                 !.session = settings]
                                   ELSE GotDaq(settings)
                       /\ ipc_out' = Output("daq.initialize",
                             <<DataLine(ok, IF ok THEN "" ELSE "Failed to initialize DAQ")>>)
    /\ UNCHANGED <<scanner_instance, streamVars, scanVars, execVars, motionVars, pulseVars, scanner_settings>>

\* {"command": "daq", "action": "cleanup"}: cleanup_daq() drops the instance;
\* DAQ.cleanup() and MockDAQ.cleanup() do not raise.
IpcDaqCleanup ==
    /\ LoopReading
    /\ daq_instance' = NoDaq
    /\ ipc_out' = Output("daq.cleanup", <<DataLine(TRUE, "")>>)
    /\ UNCHANGED <<scanner_instance, streamVars, scanVars, execVars, motionVars, pulseVars, scanner_settings>>

\* Mutant of DaqReady: the commands do not test the instance.
DaqReadyUnchecked == TRUE

\* not (_daq_instance is None or not _daq_instance.is_initialized)
DaqReady == daq_instance.exists /\ daq_instance.is_initialized

\* (current_position + degrees) % 360.0 for a negative degrees smaller than
\* half the spacing of the floats below 360.0, such as -1e-17: the sum rounds
\* to current_position when that is not 0.0, and from 0.0 the float remainder
\* -1e-17 % 360.0 rounds to 360.0 itself.
RotatedByTiny(p) == IF p = 0 THEN Circle ELSE p

\* Position after a successful rotate(90), rotate(-1e-17),
\* step(steps_per_revolution / 4, 1) or home().
MovedPosition(action, arg, p) ==
    IF action = "rotate"
       THEN IF arg = "tiny" THEN RotatedByTiny(p) ELSE RotatedPosition(p, 90 * num_frames)
    ELSE IF action = "step" THEN PositionAfterStep(p, StepsPerRevolution \div 4, 1)
    ELSE 0

\* {"command": "daq", "action": "rotate" | "step" | "home", ...}; arg: the
\* degrees or num_steps of the command: "missing", "quarter" for a quarter
\* turn, or "tiny" for the degrees -1e-17, which makes 0 steps and so does not
\* reach the hardware.
IpcDaqMove(action, arg, ok) ==
    /\ LoopReading
    /\ action \in {"rotate", "step", "home"}
    /\ arg \in {"missing", "quarter", "tiny"}
    /\ arg = "tiny" => action = "rotate"
    /\ IF ~DaqReady
          THEN /\ ok
               /\ ipc_out' = Output("daq." \o action,
                     <<DataLine(FALSE, "DAQ not initialized. Call initialize() first.")>>)
               /\ UNCHANGED daq_instance
          ELSE IF action # "home" /\ arg = "missing"
                  THEN /\ ok
                       /\ ipc_out' = Output("daq." \o action,
                             <<DataLine(FALSE, "parameter required")>>)
                       /\ UNCHANGED daq_instance
                  ELSE /\ ok \in Outcomes(IF action = "home"
                                             THEN HomeUsesHardware(daq_instance.position)
                                             ELSE ~use_mock /\ arg # "tiny")
                       /\ daq_instance' =
                             IF ok THEN [daq_instance EXCEPT
                                            !.position = MovedPosition(action, arg, @)]
                                   ELSE daq_instance
                       /\ ipc_out' = Output("daq." \o action,
                             <<DataLine(ok, IF ok THEN "" ELSE "DAQ execution failed")>>)
    /\ UNCHANGED <<scanner_instance, streamVars, scanVars, execVars, motionVars, pulseVars, scanner_settings>>

\* Mutant of LeftOpenByReplaced: the scanner is replaced without cleanup.
LeftOpenByReplacedUncleaned == cam_is_open \/ daq_is_initialized

\* Whether the Scanner object that get_scanner_instance replaces still holds
\* open hardware when it is dropped: cleanup_scanner() has run its cleanup()
\* before (line 625), which closes the camera and cleans up the DAQ.
LeftOpenByReplaced == FALSE

\* What get_scanner_instance(settings) does about the instance.
GotScanner(settings) ==
    IF ~scanner_instance.exists THEN "created"
    ELSE IF scanner_instance.settings = settings THEN "reused"
    ELSE "replaced"

\* {"command": "scanner", "action": "initialize", "settings": ...}:
\* get_scanner_instance, which cleans up and replaces a scanner whose settings
\* differ, then Scanner.initialize(), which returns at once when already
\* initialized and otherwise opens the camera and initializes the DAQ, or
\* cleans up and raises.
IpcScannerInitialize(settings, ok) ==
    /\ LoopReading
    /\ settings \in 0..2
    /\ IF settings = 0
          THEN /\ ok
               /\ ipc_out' = Output("scanner.initialize", <<DataLine(FALSE, "invalid settings")>>)
               /\ UNCHANGED <<scanner_instance, is_initialized, camera, daq,
                              cam_is_open, daq_is_initialized>>
          ELSE IF GotScanner(settings) = "reused" /\ is_initialized
                  THEN /\ ok
                       /\ ipc_out' = Output("scanner.initialize", <<DataLine(TRUE, "")>>)
                       /\ scanner_instance' = [scanner_instance EXCEPT !.last = "reused"]
                       /\ UNCHANGED <<is_initialized, camera, daq, cam_is_open,
                                      daq_is_initialized>>
                  ELSE /\ ok \in Outcomes(~use_mock)
                       /\ scanner_instance' =
                             [exists |-> TRUE, settings |-> settings,
                              last |-> GotScanner(settings),
                              orphan_open |->
                                 \/ scanner_instance.orphan_open
                                 \/ GotScanner(settings) = "replaced" /\ LeftOpenByReplaced]
                       /\ is_initialized' = ok
                       /\ camera' = IF ok THEN "obj" ELSE "None"
                       /\ daq' = IF ok THEN "obj" ELSE "None"
                       /\ cam_is_open' = ok
                       /\ daq_is_initialized' = ok
                       /\ ipc_out' = Output("scanner.initialize",
                             <<DataLine(ok, IF ok THEN "" ELSE "Scanner initialization failed")>>)
    /\ UNCHANGED <<daq_instance, streamVars, num_frames, use_mock, current_position,
                   scan_pc, frame_idx, frames_captured, on_frame, exc, calls,
                   scan_result, ever_initialized, life_calls, life_result,
                   execVars, motionVars, pulseVars, scanner_settings>>

\* {"command": "scanner", "action": "cleanup"}: cleanup_scanner() runs
\* Scanner.cleanup(), which does not raise, and drops the instance.
IpcScannerCleanup ==
    /\ LoopReading
    /\ scanner_instance' = [NoScanner EXCEPT !.orphan_open = scanner_instance.orphan_open]
    /\ is_initialized' = FALSE
    /\ camera' = "None"
    /\ daq' = "None"
    /\ cam_is_open' = FALSE
    /\ daq_is_initialized' = FALSE
    /\ ipc_out' = Output("scanner.cleanup", <<DataLine(TRUE, "")>>)
    /\ UNCHANGED <<daq_instance, streamVars, num_frames, use_mock, current_position,
                   scan_pc, frame_idx, frames_captured, on_frame, exc, calls,
                   scan_result, ever_initialized, life_calls, life_result,
                   execVars, motionVars, pulseVars, scanner_settings>>

\* {"command": "scanner", "action": "scan"}: perform_scan() returns a
\* ScanResult whose success goes into the DATA line.
IpcScannerScan(ok) ==
    /\ LoopReading
    /\ IF ~scanner_instance.exists \/ ~is_initialized
          THEN /\ ok
               /\ ipc_out' = Output("scanner.scan",
                     <<DataLine(FALSE, "Scanner not initialized. Call initialize() first.")>>)
          ELSE /\ ok \in Outcomes(~use_mock)
               /\ ipc_out' = Output("scanner.scan",
                     <<DataLine(ok, IF ok THEN "" ELSE "Scan failed")>>)
    /\ UNCHANGED <<daq_instance, scanner_instance, streamVars, scanVars, execVars,
                   motionVars, pulseVars, scanner_settings>>

\* {"command": "camera", "action": "connect", "settings": ...}
IpcCameraConnect(settings, openOk) ==
    /\ LoopReading
    /\ Connect(settings, openOk)
    /\ ipc_out' = Output("camera.connect", <<last_resp'>>)
    /\ UNCHANGED <<daq_instance, scanner_instance, scanVars, execVars, motionVars,
                   pulseVars, scanner_settings>>

\* {"command": "camera", "action": "disconnect"}: close_camera() prints an
\* ERROR: line when close() raises; the handler then prints its DATA: line.
\* Camera.close() can raise only on an open camera that is not the mock.
IpcCameraDisconnect(closeOk) ==
    /\ LoopReading
    /\ closeOk \in Outcomes(~use_mock /\ camera_instance = "open")
    /\ Disconnect
    /\ ipc_out' = Output("camera.disconnect",
          (IF closeOk THEN <<>> ELSE <<ErrorLine("Error closing camera")>>)
          \o <<DataLine(TRUE, "")>>)
    /\ UNCHANGED <<daq_instance, scanner_instance, scanVars, execVars, motionVars,
                   pulseVars, scanner_settings>>

\* The command lines that change nothing: ping, the status actions, an
\* unknown command, an unknown action, a line that is not JSON ("malformed")
\* and JSON that is not an object, whose cmd.get raises ("nonobject").
PlainCommands == {"ping", "daq.status", "scanner.status", "unknown",
                  "daq.unknown", "scanner.unknown", "malformed", "nonobject"}

IpcPlain(cmd) ==
    /\ LoopReading
    /\ cmd \in PlainCommands
    /\ ipc_out' = Output(cmd,
          IF cmd \in {"ping", "daq.status", "scanner.status"}
             THEN <<DataLine(TRUE, "")>>
             ELSE <<ErrorLine(cmd)>>)
    /\ UNCHANGED <<daq_instance, scanner_instance, streamVars, scanVars, execVars,
                   motionVars, pulseVars, scanner_settings>>

\* A line that stdin cannot decode (it is not UTF-8 and stdin decodes
\* strictly): the iteration `for line in sys.stdin` raises UnicodeDecodeError
\* outside the inner try, the outer except clause prints the error and
\* run_ipc_loop returns.
IpcUndecodable ==
    /\ LoopReading
    /\ ipc_out' = Output("fatal", <<ErrorLine("Fatal error")>>)
    /\ UNCHANGED <<daq_instance, scanner_instance, streamVars, scanVars, execVars,
                   motionVars, pulseVars, scanner_settings>>

(***************************************************************************)
(*     Settings: ScannerSettings.__post_init__ in scanner_types.py         *)
(***************************************************************************)

\* No ScannerSettings is being constructed.
NoSettings ==
    [camera |-> [form |-> "object", num_frames |-> 1],
     daq |-> [form |-> "object", num_frames |-> 1],
     num_frames |-> 1, output_path |-> "./scans", result |-> "none"]

\* The camera and daq arguments: a dictionary carries any frame count, a
\* CameraSettings or DAQSettings object passed its own __post_init__, which
\* raises ValueError for num_frames <= 0.
SubSettings ==
    [form : {"dict"}, num_frames : -1..2] \cup [form : {"object"}, num_frames : 1..2]

\* __post_init__: dictionaries are converted first (CameraSettings(**camera),
\* DAQSettings(**daq)), then the parent's num_frames and output_path are
\* validated, then the frame counts of both sub-settings are set to the
\* parent's.
PostInit(st) ==
    IF st.camera.form = "dict" /\ st.camera.num_frames <= 0
       THEN [st EXCEPT !.result = "ValueError: camera num_frames"]
    ELSE IF st.daq.form = "dict" /\ st.daq.num_frames <= 0
       THEN [st EXCEPT !.camera.form = "object",
                       !.result = "ValueError: daq num_frames"]
    ELSE IF st.num_frames <= 0
       THEN [st EXCEPT !.camera.form = "object", !.daq.form = "object",
                       !.result = "ValueError: num_frames"]
    ELSE IF st.output_path = ""
       THEN [st EXCEPT !.camera.form = "object", !.daq.form = "object",
                       !.result = "ValueError: output_path"]
    ELSE [st EXCEPT !.camera = [form |-> "object", num_frames |-> st.num_frames],
                    !.daq = [form |-> "object", num_frames |-> st.num_frames],
                    !.result = "constructed"]

\* ScannerSettings(camera, daq, num_frames, output_path) is called.
ConstructScannerSettings ==
    /\ scanner_settings.result = "pending"
    /\ scanner_settings' = PostInit(scanner_settings)

(***************************************************************************)
(*                            Specifications                               *)
(***************************************************************************)

\* The module-level state of ipc_handler.py after import and a Scanner as its
\* constructor leaves it (one frame, mock hardware); the command thread and
\* the streaming workers run, the scanner is left alone.
InitStreaming ==
    /\ streaming_active = FALSE
    /\ streaming_thread = 0
    /\ streaming_lock = FALSE
    /\ camera_instance = "None"
    /\ workers = [t \in Threads |-> "unborn"]
    /\ ipc_pc = "idle"
    /\ last_resp = NoResp
    /\ frame_lines = 0
    /\ error_lines = 0
    /\ stop_returned = FALSE
    /\ num_frames = 1
    /\ use_mock = TRUE
    /\ is_initialized = FALSE
    /\ camera = "None"
    /\ daq = "None"
    /\ cam_is_open = FALSE
    /\ daq_is_initialized = FALSE
    /\ current_position = 0
    /\ scan_pc = "idle"
    /\ frame_idx = 0
    /\ frames_captured = 0
    /\ on_frame = FALSE
    /\ exc = "None"
    /\ calls = <<>>
    /\ scan_result = NoResult
    /\ ever_initialized = FALSE
    /\ life_calls = <<>>
    /\ life_result = "none"
    /\ task = "None"
    /\ exec_pc = "idle"
    /\ retry_count = 0
    /\ done = FALSE
    /\ exec_exc = NoError
    /\ wait_attempts = 0
    /\ last_wait = "none"
    /\ exec_calls = <<>>
    /\ exec_result = NoExecution
    /\ motion_calls = <<>>
    /\ sampling_rate = 40000
    /\ pulse_steps = 0
    /\ pulse_direction = 1
    /\ pulse_data = <<>>
    /\ daq_instance = NoDaq
    /\ scanner_instance = NoScanner
    /\ ipc_out = Output("none", <<>>)
    /\ scanner_settings = NoSettings

NextStream ==
    \/ \E t \in Threads : WorkerCheck(t) /\ UNCHANGED <<scanVars, execVars, motionVars, pulseVars,
                    daq_instance, scanner_instance, ipc_out, scanner_settings>>
    \/ \E t \in Threads : WorkerCamera(t) /\ UNCHANGED <<scanVars, execVars, motionVars, pulseVars,
                    daq_instance, scanner_instance, ipc_out, scanner_settings>>
    \/ \E t \in Threads, ok \in BOOLEAN : WorkerCapture(t, ok) /\ UNCHANGED <<scanVars, execVars, motionVars, pulseVars,
                    daq_instance, scanner_instance, ipc_out, scanner_settings>>
    \/ \E t \in Threads : WorkerEmit(t) /\ UNCHANGED <<scanVars, execVars, motionVars, pulseVars,
                    daq_instance, scanner_instance, ipc_out, scanner_settings>>
    \/ \E t \in Threads : WorkerSleep(t) /\ UNCHANGED <<scanVars, execVars, motionVars, pulseVars,
                    daq_instance, scanner_instance, ipc_out, scanner_settings>>
    \/ \E s \in SettingsInputs, ok \in BOOLEAN : Connect(s, ok) /\ UNCHANGED <<scanVars, execVars, motionVars, pulseVars,
                    daq_instance, scanner_instance, ipc_out, scanner_settings>>
    \/ Disconnect /\ UNCHANGED <<scanVars, execVars, motionVars, pulseVars,
                    daq_instance, scanner_instance, ipc_out, scanner_settings>>
    \/ \E s \in SettingsInputs, ok \in BOOLEAN : StartStream(s, ok) /\ UNCHANGED <<scanVars, execVars, motionVars, pulseVars,
                    daq_instance, scanner_instance, ipc_out, scanner_settings>>
    \/ StopStream /\ UNCHANGED <<scanVars, execVars, motionVars, pulseVars,
                    daq_instance, scanner_instance, ipc_out, scanner_settings>>
    \/ StopStreamJoin /\ UNCHANGED <<scanVars, execVars, motionVars, pulseVars,
                    daq_instance, scanner_instance, ipc_out, scanner_settings>>

SpecStream == InitStreaming /\ [][NextStream]_vars

\* One step of the streaming thread t, whichever it is.
WorkerStep(t) ==
    /\ \/ WorkerCheck(t)
       \/ WorkerCamera(t)
       \/ \E ok \in BOOLEAN : WorkerCapture(t, ok)
       \/ WorkerEmit(t)
       \/ WorkerSleep(t)
    /\ UNCHANGED <<scanVars, execVars, motionVars, pulseVars,
                   daq_instance, scanner_instance, ipc_out, scanner_settings>>

\* A started thread is scheduled, its sleep ends and its capture call returns
\* or raises.
SpecStreamFair == SpecStream /\ \A t \in Threads : WF_vars(WorkerStep(t))

\* A Scanner as its constructor leaves it, for any frame count and either
\* hardware selection; no stream runs.
InitScanning ==
    /\ streaming_active = FALSE
    /\ streaming_thread = 0
    /\ streaming_lock = FALSE
    /\ camera_instance = "None"
    /\ workers = [t \in Threads |-> "unborn"]
    /\ ipc_pc = "idle"
    /\ last_resp = NoResp
    /\ frame_lines = 0
    /\ error_lines = 0
    /\ stop_returned = FALSE
    /\ num_frames \in 1..MaxFrames
    /\ use_mock \in BOOLEAN
    /\ is_initialized = FALSE
    /\ camera = "None"
    /\ daq = "None"
    /\ cam_is_open = FALSE
    /\ daq_is_initialized = FALSE
    /\ current_position = 0
    /\ scan_pc = "idle"
    /\ frame_idx = 0
    /\ frames_captured = 0
    /\ on_frame = FALSE
    /\ exc = "None"
    /\ calls = <<>>
    /\ scan_result = NoResult
    /\ ever_initialized = FALSE
    /\ life_calls = <<>>
    /\ life_result = "none"
    /\ task = "None"
    /\ exec_pc = "idle"
    /\ retry_count = 0
    /\ done = FALSE
    /\ exec_exc = NoError
    /\ wait_attempts = 0
    /\ last_wait = "none"
    /\ exec_calls = <<>>
    /\ exec_result = NoExecution
    /\ motion_calls = <<>>
    /\ sampling_rate = 40000
    /\ pulse_steps = 0
    /\ pulse_direction = 1
    /\ pulse_data = <<>>
    /\ daq_instance = NoDaq
    /\ scanner_instance = NoScanner
    /\ ipc_out = Output("none", <<>>)
    /\ scanner_settings = NoSettings

NextScan ==
    \/ Initialize /\ UNCHANGED <<streamVars, execVars, motionVars, pulseVars,
                    daq_instance, scanner_instance, ipc_out, scanner_settings>>
    \/ \E ok \in BOOLEAN : InitializeCamera(ok) /\ UNCHANGED <<streamVars, execVars, motionVars, pulseVars,
                    daq_instance, scanner_instance, ipc_out, scanner_settings>>
    \/ \E ok \in BOOLEAN : InitializeDaq(ok) /\ UNCHANGED <<streamVars, execVars, motionVars, pulseVars,
                    daq_instance, scanner_instance, ipc_out, scanner_settings>>
    \/ \E ok \in BOOLEAN : InitializeExcept(ok) /\ UNCHANGED <<streamVars, execVars, motionVars, pulseVars,
                    daq_instance, scanner_instance, ipc_out, scanner_settings>>
    \/ \E ok \in BOOLEAN : Cleanup(ok) /\ UNCHANGED <<streamVars, execVars, motionVars, pulseVars,
                    daq_instance, scanner_instance, ipc_out, scanner_settings>>
    \/ \E cb \in BOOLEAN : PerformScan(cb) /\ UNCHANGED <<streamVars, execVars, motionVars, pulseVars,
                    daq_instance, scanner_instance, ipc_out, scanner_settings>>
    \/ \E ok \in BOOLEAN : ScanHome(ok) /\ UNCHANGED <<streamVars, execVars, motionVars, pulseVars,
                    daq_instance, scanner_instance, ipc_out, scanner_settings>>
    \/ \E ok \in BOOLEAN : ScanRotate(ok) /\ UNCHANGED <<streamVars, execVars, motionVars, pulseVars,
                    daq_instance, scanner_instance, ipc_out, scanner_settings>>
    \/ \E image \in {"image", "raise"} : ScanGrab(image) /\ UNCHANGED <<streamVars, execVars, motionVars, pulseVars,
                    daq_instance, scanner_instance, ipc_out, scanner_settings>>
    \/ \E ok \in BOOLEAN : ScanCallback(ok) /\ UNCHANGED <<streamVars, execVars, motionVars, pulseVars,
                    daq_instance, scanner_instance, ipc_out, scanner_settings>>
    \/ \E ok \in BOOLEAN : ScanReturnHome(ok) /\ UNCHANGED <<streamVars, execVars, motionVars, pulseVars,
                    daq_instance, scanner_instance, ipc_out, scanner_settings>>
    \/ \E ok \in BOOLEAN : ScanExcept(ok) /\ UNCHANGED <<streamVars, execVars, motionVars, pulseVars,
                    daq_instance, scanner_instance, ipc_out, scanner_settings>>

SpecScan == InitScanning /\ [][NextScan]_vars

\* A DAQ, initialized or not, with no execution under way; nothing else runs.
InitExecuting ==
    /\ streaming_active = FALSE
    /\ streaming_thread = 0
    /\ streaming_lock = FALSE
    /\ camera_instance = "None"
    /\ workers = [t \in Threads |-> "unborn"]
    /\ ipc_pc = "idle"
    /\ last_resp = NoResp
    /\ frame_lines = 0
    /\ error_lines = 0
    /\ stop_returned = FALSE
    /\ num_frames = 1
    /\ use_mock = FALSE
    /\ is_initialized = FALSE
    /\ camera = "None"
    /\ daq = "None"
    /\ cam_is_open = FALSE
    /\ daq_is_initialized = FALSE
    /\ current_position = 0
    /\ scan_pc = "idle"
    /\ frame_idx = 0
    /\ frames_captured = 0
    /\ on_frame = FALSE
    /\ exc = "None"
    /\ calls = <<>>
    /\ scan_result = NoResult
    /\ ever_initialized = FALSE
    /\ life_calls = <<>>
    /\ life_result = "none"
    /\ task \in {"None", "open"}
    /\ exec_pc = "idle"
    /\ retry_count = 0
    /\ done = FALSE
    /\ exec_exc = NoError
    /\ wait_attempts = 0
    /\ last_wait = "none"
    /\ exec_calls = <<>>
    /\ exec_result = NoExecution
    /\ motion_calls = <<>>
    /\ sampling_rate = 40000
    /\ pulse_steps = 0
    /\ pulse_direction = 1
    /\ pulse_data = <<>>
    /\ daq_instance = NoDaq
    /\ scanner_instance = NoScanner
    /\ ipc_out = Output("none", <<>>)
    /\ scanner_settings = NoSettings

NextExec ==
    \/ WriteAndExecute /\ UNCHANGED <<streamVars, scanVars, motionVars, pulseVars,
                    daq_instance, scanner_instance, ipc_out, scanner_settings>>
    \/ \E ok \in BOOLEAN : ExecConfigure(ok) /\ UNCHANGED <<streamVars, scanVars, motionVars, pulseVars,
                    daq_instance, scanner_instance, ipc_out, scanner_settings>>
    \/ \E ok \in BOOLEAN : ExecWrite(ok) /\ UNCHANGED <<streamVars, scanVars, motionVars, pulseVars,
                    daq_instance, scanner_instance, ipc_out, scanner_settings>>
    \/ \E ok \in BOOLEAN : ExecStart(ok) /\ UNCHANGED <<streamVars, scanVars, motionVars, pulseVars,
                    daq_instance, scanner_instance, ipc_out, scanner_settings>>
    \/ ExecLoop /\ UNCHANGED <<streamVars, scanVars, motionVars, pulseVars,
                    daq_instance, scanner_instance, ipc_out, scanner_settings>>
    \/ \E o \in WaitOutcomes : ExecWait(o) /\ UNCHANGED <<streamVars, scanVars, motionVars, pulseVars,
                    daq_instance, scanner_instance, ipc_out, scanner_settings>>
    \/ \E ok \in BOOLEAN : ExecStop(ok) /\ UNCHANGED <<streamVars, scanVars, motionVars, pulseVars,
                    daq_instance, scanner_instance, ipc_out, scanner_settings>>
    \/ \E ok \in BOOLEAN : ExecExcept(ok) /\ UNCHANGED <<streamVars, scanVars, motionVars, pulseVars,
                    daq_instance, scanner_instance, ipc_out, scanner_settings>>

SpecExec == InitExecuting /\ [][NextExec]_vars

\* A DAQ or a MockDAQ as its constructor leaves it; nothing else runs.
InitMoving ==
    /\ streaming_active = FALSE
    /\ streaming_thread = 0
    /\ streaming_lock = FALSE
    /\ camera_instance = "None"
    /\ workers = [t \in Threads |-> "unborn"]
    /\ ipc_pc = "idle"
    /\ last_resp = NoResp
    /\ frame_lines = 0
    /\ error_lines = 0
    /\ stop_returned = FALSE
    /\ num_frames = PositionResolution
    /\ use_mock \in BOOLEAN
    /\ is_initialized = FALSE
    /\ camera = "None"
    /\ daq = "None"
    /\ cam_is_open = FALSE
    /\ daq_is_initialized = FALSE
    /\ current_position = 0
    /\ scan_pc = "idle"
    /\ frame_idx = 0
    /\ frames_captured = 0
    /\ on_frame = FALSE
    /\ exc = "None"
    /\ calls = <<>>
    /\ scan_result = NoResult
    /\ ever_initialized = FALSE
    /\ life_calls = <<>>
    /\ life_result = "none"
    /\ task = "None"
    /\ exec_pc = "idle"
    /\ retry_count = 0
    /\ done = FALSE
    /\ exec_exc = NoError
    /\ wait_attempts = 0
    /\ last_wait = "none"
    /\ exec_calls = <<>>
    /\ exec_result = NoExecution
    /\ motion_calls = <<>>
    /\ sampling_rate = 40000
    /\ pulse_steps = 0
    /\ pulse_direction = 1
    /\ pulse_data = <<>>
    /\ daq_instance = NoDaq
    /\ scanner_instance = NoScanner
    /\ ipc_out = Output("none", <<>>)
    /\ scanner_settings = NoSettings

NextMotion ==
    \/ \E o \in {"ok", "failed", "failed_close_raised"} :
          DaqInitialize(o) /\ UNCHANGED <<streamVars, scannerVars, executionVars, pulseVars,
                    daq_instance, scanner_instance, ipc_out, scanner_settings>>
    \/ \E d \in RotateInputs, ok \in BOOLEAN :
          DaqRotate(d, ok) /\ UNCHANGED <<streamVars, scannerVars, executionVars, pulseVars,
                    daq_instance, scanner_instance, ipc_out, scanner_settings>>
    \/ \E ok \in BOOLEAN :
          DaqHome(ok) /\ UNCHANGED <<streamVars, scannerVars, executionVars, pulseVars,
                    daq_instance, scanner_instance, ipc_out, scanner_settings>>
    \/ \E n \in {-1, 0, StepsPerRevolution \div 4}, dir \in {-1, 0, 1}, ok \in BOOLEAN :
          DaqStep(n, dir, ok) /\ UNCHANGED <<streamVars, scannerVars, executionVars, pulseVars,
                    daq_instance, scanner_instance, ipc_out, scanner_settings>>
    \/ \E ok \in BOOLEAN :
          DaqCleanup(ok) /\ UNCHANGED <<streamVars, scannerVars, executionVars, pulseVars,
                    daq_instance, scanner_instance, ipc_out, scanner_settings>>

SpecMotion == InitMoving /\ [][NextMotion]_vars

\* A DAQ with some positive sampling rate and the arguments of one call of
\* _generate_step_pulses; nothing else runs.
InitPulses ==
    /\ streaming_active = FALSE
    /\ streaming_thread = 0
    /\ streaming_lock = FALSE
    /\ camera_instance = "None"
    /\ workers = [t \in Threads |-> "unborn"]
    /\ ipc_pc = "idle"
    /\ last_resp = NoResp
    /\ frame_lines = 0
    /\ error_lines = 0
    /\ stop_returned = FALSE
    /\ num_frames = 1
    /\ use_mock = FALSE
    /\ is_initialized = FALSE
    /\ camera = "None"
    /\ daq = "None"
    /\ cam_is_open = FALSE
    /\ daq_is_initialized = FALSE
    /\ current_position = 0
    /\ scan_pc = "idle"
    /\ frame_idx = 0
    /\ frames_captured = 0
    /\ on_frame = FALSE
    /\ exc = "None"
    /\ calls = <<>>
    /\ scan_result = NoResult
    /\ ever_initialized = FALSE
    /\ life_calls = <<>>
    /\ life_result = "none"
    /\ task = "None"
    /\ exec_pc = "idle"
    /\ retry_count = 0
    /\ done = FALSE
    /\ exec_exc = NoError
    /\ wait_attempts = 0
    /\ last_wait = "none"
    /\ exec_calls = <<>>
    /\ exec_result = NoExecution
    /\ motion_calls = <<>>
    /\ sampling_rate \in SamplingRates
    /\ pulse_steps \in 0..MaxSteps
    /\ pulse_direction \in {1, -1}
    /\ pulse_data = <<>>
    /\ daq_instance = NoDaq
    /\ scanner_instance = NoScanner
    /\ ipc_out = Output("none", <<>>)
    /\ scanner_settings = NoSettings

NextPulses ==
    \/ GenerateStepPulses /\ UNCHANGED <<streamVars, scanVars, execVars, motionVars,
                    daq_instance, scanner_instance, ipc_out, scanner_settings>>

SpecPulses == InitPulses /\ [][NextPulses]_vars

\* The module-level state of ipc_handler.py after import, with mock or real
\* hardware; only the command thread runs and no stream is started.
InitCommands ==
    /\ streaming_active = FALSE
    /\ streaming_thread = 0
    /\ streaming_lock = FALSE
    /\ camera_instance = "None"
    /\ workers = [t \in Threads |-> "unborn"]
    /\ ipc_pc = "idle"
    /\ last_resp = NoResp
    /\ frame_lines = 0
    /\ error_lines = 0
    /\ stop_returned = FALSE
    /\ num_frames = 1
    /\ use_mock \in BOOLEAN
    /\ is_initialized = FALSE
    /\ camera = "None"
    /\ daq = "None"
    /\ cam_is_open = FALSE
    /\ daq_is_initialized = FALSE
    /\ current_position = 0
    /\ scan_pc = "idle"
    /\ frame_idx = 0
    /\ frames_captured = 0
    /\ on_frame = FALSE
    /\ exc = "None"
    /\ calls = <<>>
    /\ scan_result = NoResult
    /\ ever_initialized = FALSE
    /\ life_calls = <<>>
    /\ life_result = "none"
    /\ task = "None"
    /\ exec_pc = "idle"
    /\ retry_count = 0
    /\ done = FALSE
    /\ exec_exc = NoError
    /\ wait_attempts = 0
    /\ last_wait = "none"
    /\ exec_calls = <<>>
    /\ exec_result = NoExecution
    /\ motion_calls = <<>>
    /\ sampling_rate = 40000
    /\ pulse_steps = 0
    /\ pulse_direction = 1
    /\ pulse_data = <<>>
    /\ daq_instance = NoDaq
    /\ scanner_instance = NoScanner
    /\ ipc_out = Output("none", <<>>)
    /\ scanner_settings = NoSettings

NextCommands ==
    \/ \E st \in 0..2, ok \in BOOLEAN : IpcDaqInitialize(st, ok)
    \/ IpcDaqCleanup
    \/ \E a \in {"rotate", "step", "home"}, arg \in {"missing", "quarter", "tiny"},
          ok \in BOOLEAN :
          IpcDaqMove(a, arg, ok)
    \/ \E st \in 0..2, ok \in BOOLEAN : IpcScannerInitialize(st, ok)
    \/ IpcScannerCleanup
    \/ \E ok \in BOOLEAN : IpcScannerScan(ok)
    \/ \E st \in SettingsInputs, ok \in BOOLEAN : IpcCameraConnect(st, ok)
    \/ \E ok \in BOOLEAN : IpcCameraDisconnect(ok)
    \/ \E c \in PlainCommands : IpcPlain(c)
    \/ IpcUndecodable

SpecCommands == InitCommands /\ [][NextCommands]_vars

\* The arguments of one ScannerSettings(...) call.
InitConstructing ==
    /\ streaming_active = FALSE
    /\ streaming_thread = 0
    /\ streaming_lock = FALSE
    /\ camera_instance = "None"
    /\ workers = [t \in Threads |-> "unborn"]
    /\ ipc_pc = "idle"
    /\ last_resp = NoResp
    /\ frame_lines = 0
    /\ error_lines = 0
    /\ stop_returned = FALSE
    /\ num_frames = 1
    /\ use_mock = FALSE
    /\ is_initialized = FALSE
    /\ camera = "None"
    /\ daq = "None"
    /\ cam_is_open = FALSE
    /\ daq_is_initialized = FALSE
    /\ current_position = 0
    /\ scan_pc = "idle"
    /\ frame_idx = 0
    /\ frames_captured = 0
    /\ on_frame = FALSE
    /\ exc = "None"
    /\ calls = <<>>
    /\ scan_result = NoResult
    /\ ever_initialized = FALSE
    /\ life_calls = <<>>
    /\ life_result = "none"
    /\ task = "None"
    /\ exec_pc = "idle"
    /\ retry_count = 0
    /\ done = FALSE
    /\ exec_exc = NoError
    /\ wait_attempts = 0
    /\ last_wait = "none"
    /\ exec_calls = <<>>
    /\ exec_result = NoExecution
    /\ motion_calls = <<>>
    /\ sampling_rate = 40000
    /\ pulse_steps = 0
    /\ pulse_direction = 1
    /\ pulse_data = <<>>
    /\ daq_instance = NoDaq
    /\ scanner_instance = NoScanner
    /\ ipc_out = Output("none", <<>>)
    /\ scanner_settings \in [camera : SubSettings, daq : SubSettings,
                             num_frames : -1..2, output_path : {"", "./scans"},
                             result : {"pending"}]

NextConstruct ==
    \/ ConstructScannerSettings
          /\ UNCHANGED <<streamVars, scanVars, execVars, motionVars, pulseVars,
                         daq_instance, scanner_instance, ipc_out>>

SpecConstruct == InitConstructing /\ [][NextConstruct]_vars

(***************************************************************************)
(*                               Claims                                    *)
(***************************************************************************)

\* C1 (as claimed): at every moment at most one streaming worker is alive,
\* whatever the interleaving of start_stream, stop_stream and the worker loop.
C1_AtMostOneWorkerAlive == Cardinality(AliveWorkers) <= 1

\* C2 (as claimed): once a stop_stream that followed a start_stream has
\* returned, no worker prints a FRAME: line (until a stream is started again).
C2_NoFrameAfterStopReturned ==
    [][stop_returned => ~(\E t \in Threads : WorkerEmit(t))]_vars

\* C3: a start_stream handled while the active signal is set replies success
\* and changes neither the signal, the thread handle nor any worker.
C3_StartWhileActiveIsNoOp ==
    [][((\E s \in SettingsInputs, ok \in BOOLEAN : StartStream(s, ok))
            /\ streaming_active)
        => /\ last_resp'.cmd = "start_stream"
           /\ last_resp'.kind = "DATA"
           /\ last_resp'.success
           /\ streaming_active' = streaming_active
           /\ streaming_thread' = streaming_thread
           /\ workers' = workers]_vars

\* C3 witness: the second start_stream was answered while one worker runs.
C3_Witness ==
    /\ last_resp = Data("start_stream", TRUE, "Already streaming")
    /\ streaming_active
    /\ streaming_thread # 0
    /\ Cardinality(AliveWorkers) = 1

\* C4: a stop_stream handled while the active signal is clear replies success
\* and changes neither the signal, the thread handle nor the camera instance.
C4_StopWhileIdleIsNoOp ==
    [][(StopStream /\ ~streaming_active)
        => /\ last_resp'.cmd = "stop_stream"
           /\ last_resp'.kind = "DATA"
           /\ last_resp'.success
           /\ streaming_active' = streaming_active
           /\ streaming_thread' = streaming_thread
           /\ camera_instance' = camera_instance
           /\ workers' = workers]_vars

\* C4 witness: an idle stop_stream was answered and the connected camera kept.
C4_Witness ==
    /\ last_resp = Data("stop_stream", TRUE, "Not streaming")
    /\ ~streaming_active
    /\ streaming_thread = 0
    /\ camera_instance = "open"

\* ---- what the call log of a scan says ----

Count(op, ok) ==
    Cardinality({i \in 1..Len(calls) : calls[i].op = op /\ calls[i].ok = ok})

Attempts(op) == Count(op, TRUE) + Count(op, FALSE)

AllCallsOk == \A i \in 1..Len(calls) : calls[i].ok

Returned == scan_pc = "idle" /\ scan_result.kind = "returned"

\* C5: a scan in which every call succeeded returns success, all num_frames
\* frames and no error, and leaves the turntable at 0.
C5_HealthyScanSucceeds ==
    (Returned /\ AllCallsOk)
    => /\ scan_result = ScanResult(TRUE, num_frames, "None")
       /\ current_position = 0
       /\ Count("grab_frame", TRUE) = num_frames

\* C5 witness: a several-frame scan on real hardware returned success.
C5_Witness ==
    /\ Returned /\ AllCallsOk
    /\ ~use_mock
    /\ num_frames > 1
    /\ scan_result.success

\* C6 (as claimed): when exactly one capture of a scan fails and every other
\* call succeeds, every frame was still rotated to and attempted, the scan
\* ended with a successful home, and the result is a failure with
\* num_frames - 1 frames.
C6_OneFailedCaptureDoesNotAbort ==
    (/\ Returned
     /\ Count("grab_frame", FALSE) = 1
     /\ \A i \in 1..Len(calls) : calls[i].op # "grab_frame" => calls[i].ok)
    => /\ Attempts("rotate") = num_frames
       /\ Attempts("grab_frame") = num_frames
       /\ calls[Len(calls)].op \in {"home", "recovery_home"}
       /\ ~scan_result.success
       /\ scan_result.frames_captured = num_frames - 1

FirstFailure == CHOOSE i \in 1..Len(calls) : ~calls[i].ok /\ \A j \in 1..(i-1) : calls[j].ok

\* C8: a scan that failed on an exception has attempted home exactly once
\* after the failing call, as its last call, and the result carries the
\* message of the failing call and the count whether or not that home failed.
C8_RecoveryHomeAttempted ==
    (Returned /\ ~AllCallsOk)
    => /\ Len(calls) = FirstFailure + 1
       /\ calls[FirstFailure].op # "recovery_home"
       /\ calls[Len(calls)].op = "recovery_home"
       /\ scan_result = ScanResult(FALSE, Count("grab_frame", TRUE),
                                   ScanFailed(calls[FirstFailure].op))

\* C8 witness: the recovery home itself failed and the scan still returned.
C8_Witness ==
    /\ Returned
    /\ Count("recovery_home", FALSE) = 1
    /\ scan_result.error = ScanFailed("grab_frame")

C10_UninitializedScanRaises ==
    [][((\E cb \in BOOLEAN : PerformScan(cb)) /\ ~is_initialized)
        => /\ scan_result'
                = Raised("Scanner not initialized. Call initialize() first.")
           /\ calls' = calls
           /\ UNCHANGED <<is_initialized, camera, daq, cam_is_open,
                          daq_is_initialized, current_position, scan_pc>>]_vars

\* C10 witness: the error was raised by a scanner that had been initialized
\* and cleaned up.
C10_Witness ==
    /\ scan_result = Raised("Scanner not initialized. Call initialize() first.")
    /\ ever_initialized
    /\ ~is_initialized

\* The calls of the last initialize() or cleanup() named op.
LifeIndex(op) == {i \in 1..Len(life_calls) : life_calls[i].op = op}

C12_CleanupAlwaysClears ==
    /\ life_result \in {"none", "initialize:running", "initialize:noop",
                        "initialize:returned", "initialize:raised",
                        "cleanup:returned"}
    /\ (scan_pc = "idle" /\ life_result \in {"cleanup:returned", "initialize:raised"})
          => /\ ~is_initialized
             /\ camera = "None"
             /\ daq = "None"
             /\ ~cam_is_open
             /\ ~daq_is_initialized
             /\ \A i \in LifeIndex("camera.close") :
                   ~life_calls[i].ok
                      => i < Len(life_calls) /\ life_calls[i + 1] = Call("daq.cleanup", TRUE)

\* C12 witness: cleanup() was called on an initialized scanner, camera.close()
\* raised, daq.cleanup() ran after it and cleanup() returned.
C12_Witness ==
    /\ scan_pc = "idle"
    /\ life_result = "cleanup:returned"
    /\ ever_initialized
    /\ life_calls = <<Call("camera.close", FALSE), Call("daq.cleanup", TRUE)>>
    /\ camera = "None"
    /\ ~is_initialized

\* C13: in one execution the completion wait is attempted at most
\* DAQ_RETRY_MAX_ATTEMPTS times; a further attempt is made only after an
\* attempt that reported the timeout code; a wait that returned ends the loop
\* and a wait that raised anything else goes straight to the except clause.
C13_WaitRetriedOnlyOnTimeout ==
    /\ wait_attempts <= DAQ_RETRY_MAX_ATTEMPTS
    /\ exec_pc = "wait" => (wait_attempts = 0 \/ last_wait = "timeout")
    /\ last_wait = "done" => (done /\ exec_pc \in {"loop", "stop", "except", "idle"})
    /\ last_wait = "error" => exec_pc \in {"except", "idle"}
    /\ wait_attempts = retry_count + (IF last_wait \in {"done", "error"} THEN 1 ELSE 0)

\* C13 witness: the last permitted attempt returned after 999 timeouts and the
\* execution succeeded.
C13_Witness ==
    /\ exec_pc = "idle"
    /\ exec_result = Executed
    /\ wait_attempts = DAQ_RETRY_MAX_ATTEMPTS
    /\ last_wait = "done"

\* C14 (as claimed): when every one of the DAQ_RETRY_MAX_ATTEMPTS waits timed
\* out, the execution raises a timeout error (TimeoutError) whose kind differs
\* from the kind raised for a device error.
C14_ExhaustionRaisesTimeoutError ==
    (/\ exec_pc = "idle"
     /\ exec_result.kind = "raised"
     /\ last_wait = "timeout"
     /\ wait_attempts = DAQ_RETRY_MAX_ATTEMPTS)
        => /\ exec_result.type = TimedOut.type
           /\ exec_result.type # RaisedFromExcept(DaqError("wait_until_done")).type

\* C15: an execution that failed inside the try block (configure-timing,
\* write, start, a wait error other than timeout, retry exhaustion or the
\* final stop) raises only after the except clause has called the task's
\* stop, and what it raises carries the original failure whether or not that
\* stop raised.
C15_StopBeforeErrorPropagates ==
    /\ exec_pc # "idle" => exec_result.kind = "none"
    /\ exec_pc = "except" => exec_exc # NoError
    /\ (exec_pc = "idle" /\ exec_exc # NoError)
          => /\ exec_result = Raise(ExecutionFailed(exec_exc))
             /\ Len(exec_calls) >= 1
             /\ exec_calls[Len(exec_calls)].op = "except.stop"
    /\ (exec_pc = "idle" /\ exec_result.kind = "raised" /\ task # "None")
          => exec_exc # NoError

\* C15 witness: the final stop failed, the stop of the except clause raised
\* too, and the execution raised the error of the final stop.
C15_Witness ==
    /\ exec_pc = "idle"
    /\ exec_exc = DaqError("stop")
    /\ exec_result = Raise(ExecutionFailed(DaqError("stop")))
    /\ Len(exec_calls) = 5
    /\ exec_calls[4] = Call("stop", FALSE)
    /\ exec_calls[5] = Call("except.stop", FALSE)

\* The logged calls of op that ran on an initialized DAQ.
Moves(op) ==
    {i \in 1..Len(motion_calls) :
        motion_calls[i].op = op /\ motion_calls[i].error # "NotInitialized"}

\* C16: rotate(d) on an initialized DAQ leaves the position at
\* (position + d) mod 360 when it succeeds and unchanged when the execution
\* fails; rotate(90) from 0 gives 90 and rotate(-45) from 0 gives 315.
C16_RotateUpdatesPositionOnSuccess ==
    /\ \A i \in Moves("rotate") :
          LET m == motion_calls[i]
          IN  /\ m.error = "None" => m.to = (m.from + m.arg) % (360 * num_frames)
              /\ m.error # "None" => m.to = m.from
              /\ (m.error = "None" /\ m.from = 0 /\ m.arg = 90 * num_frames)
                    => m.to = 90 * num_frames
              /\ (m.error = "None" /\ m.from = 0 /\ m.arg = -45 * num_frames)
                    => m.to = 315 * num_frames
    /\ (Len(motion_calls) > 0 /\ daq_is_initialized)
          => current_position = motion_calls[Len(motion_calls)].to

\* C16 witness: rotate(-45) from 0 succeeded and the position is 315, and a
\* rotate on the real DAQ failed before it.
C16_Witness ==
    /\ daq_is_initialized
    /\ Len(motion_calls) = 2
    /\ motion_calls[1].op = "rotate" /\ motion_calls[1].error = "Execution"
    /\ motion_calls[2].op = "rotate" /\ motion_calls[2].error = "None"
    /\ motion_calls[2].from = 0 /\ motion_calls[2].arg = -45 * num_frames
    /\ current_position = 315 * num_frames

\* C17: home() on an initialized DAQ at position p in [0, 360) ends at
\* exactly 0 when it succeeds; it calls rotate at most once, with a delta d
\* such that |d| <= 180 and (p + d) mod 360 = 0, and not at all when p is
\* within 0.1 degree of home; when that rotate fails the position is not
\* reset.
C17_HomeTakesShortArc ==
    \A i \in Moves("home") :
        LET m == motion_calls[i]
            toHome == IF m.from <= 360 * num_frames - m.from
                         THEN m.from ELSE 360 * num_frames - m.from
        IN  /\ m.from \in 0..(360 * num_frames - 1)
            /\ m.error = "None" => m.to = 0
            /\ m.rotates \in {0, 1}
            /\ m.rotates = 1 => /\ Abs(m.delta) <= 180 * num_frames
                                /\ (m.from + m.delta) % (360 * num_frames) = 0
            /\ 10 * toHome <= num_frames => m.rotates = 0
            /\ m.error # "None" => (m.rotates = 1 /\ m.to = m.from)

\* C17 witness: on the real DAQ at 315 degrees a home() failed in its rotate
\* and left the position, and the next home() rotated by +45 and ended at 0.
C17_Witness ==
    /\ Len(motion_calls) = 3
    /\ motion_calls[2].op = "home" /\ motion_calls[2].error = "Execution"
    /\ motion_calls[2].to = 315 * num_frames
    /\ motion_calls[3].op = "home" /\ motion_calls[3].error = "None"
    /\ motion_calls[3].rotates = 1
    /\ motion_calls[3].delta = 45 * num_frames
    /\ current_position = 0

C19_StepsRoundedToNearest ==
    \A i \in Moves("rotate") :
        LET m == motion_calls[i]
        IN  /\ 2 * Abs(m.steps * 360 * num_frames - Abs(m.arg) * StepsPerRevolution)
                  <= 360 * num_frames
            /\ m.direction = (IF m.arg >= 0 THEN 1 ELSE -1)
            /\ m.arg = 0 => m.steps = 0

\* The samples of step k (from 0) of a step line made of steps of 2*h samples.
StepSlice(line, k, h) == [i \in 1..(2 * h) |-> line[2 * h * k + i]]

\* h low samples followed by h high samples.
LowThenHigh(slice, h) ==
    /\ \A i \in 1..h : ~slice[i]
    /\ \A i \in (h + 1)..(2 * h) : slice[i]

\* C20 (as claimed): for n >= 0 steps at rate r > 0 both lines of the pulse
\* train have length n * floor(r/1000); each step is a run of low samples
\* followed by as many high samples; the direction line is constant, true
\* for +1 and false for -1.
C20_TrainLengthIsStepsTimesSamples ==
    \A i \in 1..Len(pulse_data) :
        LET data == pulse_data[i]
            per  == sampling_rate \div 1000
        IN  /\ Len(data.step) = pulse_steps * per
            /\ Len(data.dir) = pulse_steps * per
            /\ \A j \in 1..Len(data.dir) : data.dir[j] = (pulse_direction = 1)
            /\ \E h \in 0..per :
                  /\ Len(data.step) = pulse_steps * 2 * h
                  /\ \A k \in 0..(pulse_steps - 1) :
                        LowThenHigh(StepSlice(data.step, k, h), h)

\* C20 (amended): both lines have length n * 2 * floor(floor(r/1000) / 2),
\* each step being floor(floor(r/1000) / 2) low samples followed by as many
\* high samples, and the direction line is constant, true for +1 and false
\* for -1.
C20_TrainLengthIsStepsTimesEvenSamples ==
    \A i \in 1..Len(pulse_data) :
        LET data == pulse_data[i]
            half == (sampling_rate \div 1000) \div 2
        IN  /\ Len(data.step) = pulse_steps * 2 * half
            /\ Len(data.dir) = pulse_steps * 2 * half
            /\ \A j \in 1..Len(data.dir) : data.dir[j] = (pulse_direction = 1)
            /\ \A k \in 0..(pulse_steps - 1) :
                  LowThenHigh(StepSlice(data.step, k, half), half)

\* C20 witness: two steps in direction -1 at 3000 Hz gave low, high, low,
\* high on the step line and four low samples on the direction line.
C20_Witness ==
    /\ sampling_rate = 3000
    /\ pulse_steps = 2
    /\ pulse_direction = -1
    /\ pulse_data = <<[step |-> <<FALSE, TRUE, FALSE, TRUE>>,
                       dir  |-> <<FALSE, FALSE, FALSE, FALSE>>]>>

\* C21 (as claimed): every cleanup() of a DAQ returns without raising,
\* leaves the DAQ uninitialized with no task handle, whatever state it was
\* called in and whatever task.close() did, and leaves the position as it was.
C21_CleanupLeavesNoTask ==
    \A i \in Moves("cleanup") :
        LET m == motion_calls[i]
        IN  /\ m.error = "None"
            /\ ~m.initialized
            /\ m.task = "None"
            /\ m.to = m.from

\* C22: initialize() on a DAQ that is already initialized changes neither
\* the flag nor the task handle nor the position, and returns.
C22_InitializeTwiceIsNoOp ==
    [][\A o \in {"ok", "failed", "failed_close_raised"} :
          (daq_is_initialized /\ DaqInitialize(o))
             => /\ UNCHANGED <<daq_is_initialized, task, current_position>>
                /\ motion_calls' = Append(motion_calls, Lifecycle("initialize", "none", "None"))]_vars

\* C22 witness: a second initialize() returned on a real DAQ that stands at
\* 90 degrees, initialized and with its task.
C22_Witness ==
    /\ ~use_mock
    /\ Len(motion_calls) = 2
    /\ motion_calls[2].op = "initialize"
    /\ motion_calls[2].was_initialized
    /\ motion_calls[2].error = "None"
    /\ current_position = 90 * num_frames
    /\ daq_is_initialized
    /\ task = "open"

\* C29 (as claimed): as long as the hardware has not failed, each initialize,
\* rotate, step, home and cleanup call of a DAQ and of a MockDAQ ends with the
\* same outcome and the same position, the one fixed by the call and the
\* position before it: rotate(d) adds d, step(n, dir) adds the angle of n
\* steps in direction dir, home goes to 0, a call that raised and initialize
\* and cleanup leave the position.
C29_MockAndRealAgree ==
    \A i \in 1..Len(motion_calls) :
        LET m == motion_calls[i]
        IN  (\A j \in 1..i : motion_calls[j].error \notin {"Execution", "Failed"})
               => /\ m.error \in {"None", "NotInitialized", "ValueError"}
                  /\ m.error # "None" => m.to = m.from
                  /\ (m.error = "None" /\ m.op = "rotate")
                        => m.to = (m.from + m.arg) % (360 * num_frames)
                  /\ (m.error = "None" /\ m.op = "step")
                        => m.to = (m.from + ((m.arg * 360 * num_frames)
                                                \div StepsPerRevolution) * m.direction)
                                     % (360 * num_frames)
                  /\ (m.error = "None" /\ m.op = "home") => m.to = 0
                  /\ m.op \in {"initialize", "cleanup"} => m.to = m.from

\* C23: a daq rotate, step or home command issued while no DAQ is initialized
\* prints one DATA line with success=false and the not-initialized error, and
\* leaves the DAQ instance, its flag and its position as they were.
C23_MoveWithoutDaqIsRefused ==
    [][\A a \in {"rotate", "step", "home"}, arg \in {"missing", "quarter", "tiny"},
          ok \in BOOLEAN :
          (~(daq_instance.exists /\ daq_instance.is_initialized)
           /\ IpcDaqMove(a, arg, ok))
          => /\ ipc_out' = Output("daq." \o a,
                   <<DataLine(FALSE, "DAQ not initialized. Call initialize() first.")>>)
             /\ daq_instance' = daq_instance]_vars

\* A home command was refused after a session had been cleaned up or before
\* any began: there is no instance.
C23_Witness ==
    /\ ipc_out = Output("daq.home",
          <<DataLine(FALSE, "DAQ not initialized. Call initialize() first.")>>)
    /\ ~daq_instance.exists

\* C24: every command line handled prints exactly one response line.
C24_OneResponsePerCommand ==
    ipc_out.cmd # "none" => Len(ipc_out.lines) = 1

\* C25: an ERROR: line is printed only for an unknown command, an unknown
\* action or malformed input; a recognized action never prints one.
C25_ErrorLinesOnlyForProtocolFaults ==
    \A i \in 1..Len(ipc_out.lines) :
        ipc_out.lines[i].kind = "ERROR"
        => ipc_out.cmd \in {"unknown", "daq.unknown", "scanner.unknown", "malformed",
                            "nonobject", "fatal"}

\* C26: while the DAQ instance of the command handler is initialized, its
\* settings are the ones its session was initialized with.
C26_SettingsFixedDuringSession ==
    daq_instance.is_initialized => daq_instance.settings = daq_instance.session

\* C27: the DAQ of the command handler and the DAQ of the scanner are never
\* both initialized.
C27_AtMostOneMotionSession ==
    ~(daq_instance.is_initialized /\ daq = "obj" /\ daq_is_initialized)

\* C28: a ScannerSettings call with a positive num_frames and a non-empty
\* output_path constructs the settings, and both sub-settings then carry the
\* parent's num_frames.
C28_ParentFrameCountOverrides ==
    (scanner_settings.result \notin {"none", "pending"}
     /\ scanner_settings.num_frames > 0 /\ scanner_settings.output_path # "")
    => /\ scanner_settings.result = "constructed"
       /\ scanner_settings.camera.num_frames = scanner_settings.num_frames
       /\ scanner_settings.daq.num_frames = scanner_settings.num_frames

\* The places of the log of a scan where op was called.
CallsOf(op) == {i \in 1..Len(calls) : calls[i].op = op}

\* C30: every on_frame call follows at once the successful grab of its frame,
\* which follows that frame's rotation; it carries the number of frames rotated
\* to before it and the position that many rotations from home; the calls are
\* as many as the frames grabbed (less the one whose call is about to be made,
\* none without a callback); a successful scan made the calls 0 .. N-1.
C30_CallbackOncePerCapturedFrame ==
    /\ \A i \in CallsOf("on_frame") :
          /\ i > 2
          /\ calls[i - 1] = Call("grab_frame", TRUE)
          /\ calls[i - 2] = Call("rotate", TRUE)
          /\ calls[i].frame_idx = Cardinality({j \in CallsOf("rotate") : j < i}) - 1
          /\ calls[i].position = ((calls[i].frame_idx + 1) * DegreesPerFrame) % Circle
          /\ \A j \in CallsOf("on_frame") : j < i => calls[j].frame_idx < calls[i].frame_idx
    /\ Cardinality(CallsOf("on_frame")) =
          IF on_frame
             THEN Cardinality({i \in CallsOf("grab_frame") : calls[i].ok})
                  - (IF scan_pc = "callback" THEN 1 ELSE 0)
             ELSE 0
    /\ (scan_result.kind = "returned" /\ scan_result.success /\ on_frame)
       => {calls[i].frame_idx : i \in CallsOf("on_frame")} = 0..(num_frames - 1)

\* A scan with a callback succeeded: the callback was called for the last of
\* more than one frame.
C30_Witness ==
    /\ scan_result.kind = "returned" /\ scan_result.success /\ on_frame
    /\ num_frames > 1
    /\ \E i \in CallsOf("on_frame") : calls[i].frame_idx = num_frames - 1

\* C31: the position of the DAQ of the command handler is at least 0 and
\* below 360 degrees.
C31_PositionInRange ==
    daq_instance.position >= 0 /\ daq_instance.position < Circle

\* C32: a worker that finds the camera missing or closed, or whose capture
\* raises, prints one error line and no frame and is dead after that step; a
\* dead worker stays dead; a frame is printed only by a worker that is at its
\* send_frame; and a thread begins to run only in a start_stream that answers
\* success.
C32_WorkerErrorIsTerminal ==
    [][/\ \A t \in Threads :
             (\/ (camera_instance # "open" /\ WorkerCamera(t))
              \/ WorkerCapture(t, FALSE))
             => /\ workers'[t] = "dead"
                /\ error_lines' = Sat(error_lines, MaxFrameLines)
                /\ frame_lines' = frame_lines
       /\ \A t \in Threads : workers[t] = "dead" => workers'[t] = "dead"
       /\ frame_lines' # frame_lines => \E t \in Threads : workers[t] = "emit"
       /\ \A t \in Threads :
             (workers[t] = "unborn" /\ workers'[t] # "unborn")
             => /\ workers'[t] = "check"
                /\ last_resp' = Data("start_stream", TRUE, "")]_vars

\* A worker printed frames, then its capture raised: it printed an error and
\* is dead, and no other worker is running.
C32_Witness ==
    /\ frame_lines > 0
    /\ error_lines = 1
    /\ \E t \in Threads : workers[t] = "dead"
    /\ AliveWorkers = {}
    /\ camera_instance = "open"

\* C33: no input line ends the command loop.
C33_LoopNeverEnds == LoopReading

\* The calls of the scan to the DAQ and the camera, without those to the
\* callback.
HardwareCalls == SelectSeq(calls, LAMBDA c : c.op # "on_frame")

\* The i-th hardware call of a scan of n frames in which nothing raises.
ExpectedCall(i, n) ==
    IF i = 1 \/ i = 2 * n + 2 THEN "home"
    ELSE IF i % 2 = 0 THEN "rotate" ELSE "grab_frame"

\* C34: as long as no call of a scan has raised, its hardware calls are the
\* beginning of: home, then rotate and grab_frame for each of the N frames,
\* then home; and a scan that returned without a raise made all 2N + 2.
C34_CallsInOrder ==
    AllCallsOk
    => /\ Len(HardwareCalls) <= 2 * num_frames + 2
       /\ \A i \in 1..Len(HardwareCalls) :
             HardwareCalls[i].op = ExpectedCall(i, num_frames)
       /\ Returned => /\ Len(HardwareCalls) = 2 * num_frames + 2
                      /\ Attempts("rotate") = num_frames
                      /\ Attempts("grab_frame") = num_frames
                      /\ Attempts("home") = 2

\* A scan of three frames with a callback returned and no call had raised.
C34_Witness ==
    /\ Returned /\ AllCallsOk
    /\ num_frames = MaxFrames
    /\ on_frame
    /\ Len(HardwareCalls) = 2 * MaxFrames + 2

\* C35: when the first call of a scan to raise is a rotate or a home, the only
\* call after it is the one home of the except clause; in particular no
\* rotate and no grab_frame follows.
C35_NoRetryAfterMotionFailure ==
    \A i \in 1..Len(calls) :
        (/\ ~calls[i].ok
         /\ calls[i].op \in {"rotate", "home"}
         /\ \A j \in 1..(i - 1) : calls[j].ok)
        => /\ Len(calls) <= i + 1
           /\ Len(calls) = i + 1 => calls[i + 1].op = "recovery_home"
           /\ Returned => Len(calls) = i + 1

\* The rotate of the second frame raised, the home after it was attempted and
\* the scan returned.
C35_Witness ==
    /\ Returned
    /\ Len(calls) >= 5
    /\ Attempts("rotate") = 2
    /\ Count("rotate", FALSE) = 1
    /\ ~calls[Len(calls) - 1].ok /\ calls[Len(calls) - 1].op = "rotate"
    /\ calls[Len(calls)].op = "recovery_home"

\* How far a worker is from the end of its thread when the signal is clear.
StepsLeft(pc) ==
    CASE pc = "camera" -> 5 [] pc = "capture" -> 4 [] pc = "emit" -> 3
      [] pc = "sleep" -> 2 [] pc = "check" -> 1 [] OTHER -> 0

\* C36: while the signal is clear every step of a running worker brings it
\* nearer to the end of its thread, through at most one send_frame and never
\* from the loop test back into the loop; and if the signal stays clear for
\* ever, from some time on no worker is running.
C36_StopIsCooperative ==
    /\ [][\A t \in Threads :
             (~streaming_active /\ ~streaming_active' /\ Alive(t)
              /\ workers'[t] # workers[t])
             => StepsLeft(workers'[t]) < StepsLeft(workers[t])]_vars
    /\ [][frame_lines' # frame_lines => \E t \in Threads :
             workers[t] = "emit" /\ workers'[t] = "sleep"]_vars
    /\ (<>[](~streaming_active)) => <>[](AliveWorkers = {})

\* stop_stream returned after frames had been printed, the signal is clear
\* and the worker has ended at its loop test.
C36_Witness ==
    /\ stop_returned
    /\ ~streaming_active
    /\ frame_lines > 0
    /\ error_lines = 0
    /\ AliveWorkers = {}
    /\ \E t \in Threads : workers[t] = "dead"

\* C37: while the signal is set and the command thread is outside the locked
\* section of start_stream and stop_stream, a streaming worker is alive.
C37_ActiveSignalMeansWorker ==
    (streaming_active /\ ~streaming_lock /\ ipc_pc = "idle") => AliveWorkers # {}

\* C38: whenever the scanner's is_initialized is true, its camera and daq are
\* set, the camera is open and the DAQ is initialized.
C38_InitializedMeansHardwareReady ==
    is_initialized
    => /\ camera # "None" /\ daq # "None"
       /\ cam_is_open
       /\ daq_is_initialized

\* The scanner is still initialized and ready after a scan that failed.
C38_Witness ==
    /\ is_initialized /\ cam_is_open /\ daq_is_initialized
    /\ scan_pc = "idle"
    /\ scan_result.kind = "returned" /\ ~scan_result.success
    /\ life_result = "initialize:returned"

\* C39: a real DAQ that is not initialized holds no task handle.
C39_NoTaskWithoutSession ==
    (~use_mock /\ ~daq_is_initialized) => task = "None"

====
